---------------------------- MODULE Spec2Model ----------------------------
(***************************************************************************)
(* A model of samthor/traingraph.                                          *)
(*                                                                         *)
(*  - Graph (src/src/graph.js): edges with integer length, nodes placed on *)
(*    edges, splitEdge / mergeNode / join and the path search.             *)
(*  - GraphSimple with reservations (src/unnamed/part_000): nodes joined   *)
(*    by connections with through-sets, and "snakes" (reservations) that   *)
(*    grow and shrink along them.                                          *)
(*                                                                         *)
(* Conventions.  Identifiers produced by nextGlobalId are modelled by the  *)
(* value of the global counter alone (the prefix letter is dropped: the    *)
(* counter is shared, so the number identifies the object; below 36 the    *)
(* base-36 strings compare like the numbers).  NoId (0) stands for the     *)
(* empty string '' and for undefined.  JavaScript arrays are sequences:    *)
(* indexes here are 1-based, and index 0 stands for JavaScript's -1.       *)
(* An operation that can throw is an operator returning a record with a    *)
(* field threw and the state as it is when the exception leaves the call.  *)
(***************************************************************************)
EXTENDS Integers, Sequences, FiniteSets, TLC

VARIABLES
  byNode,     \* Graph.#byNode : node id -> [holder, pairs]
  byEdge,     \* Graph.#byEdge : edge id -> [length, virt, node, other]
  globalId,   \* the counter inside nextGlobalId
  sNode,      \* GraphSimple.#byNode : node -> [conn, reserve]
  sReserve,   \* GraphSimple.#byReserve : reserve id -> [length, node, headOffset, tailOffset]
  arrays,     \* array-based GraphSimple: the through arrays, by the order they were made
  heights,    \* HeightMap.#data : the entries [left, right, value] in the order added
  game,       \* TrainGame : [nodePos, trainData, lastTrainLoop, loopIndex]
  man,        \* SnakeMan : [part, reservedEdge, reservedNode, bySnake]
  last        \* the last call made and how it ended

vars == <<byNode, byEdge, globalId, sNode, sReserve, arrays, heights, game, man, last>>

NoId == 0

\* ------------------------------------------------------------ bounds
MaxLen == 2          \* the length of the edges added; positions asked for go one beyond
MaxId == 7           \* SpecGraph: nextGlobalId is called at most this many times
MaxFake == 2         \* SpecSearch: at most this many nodes are made by the searches

\* ------------------------------------------------------------ helpers
Put(f, k, v) == [x \in (DOMAIN f) \cup {k} |-> IF x = k THEN v ELSE f[x]]

Del(f, k) == [x \in (DOMAIN f) \ {k} |-> f[x]]

EmptyMap == [x \in {} |-> 0]

Abs(x) == IF x < 0 THEN -x ELSE x

Sign(x) == IF x < 0 THEN -1 ELSE IF x > 0 THEN 1 ELSE 0

Min(x, y) == IF x < y THEN x ELSE y

SeqToSet(s) == {s[i] : i \in 1..Len(s)}

Has(s, x) == \E i \in 1..Len(s) : s[i] = x

\* Array.prototype.indexOf / findIndex for an element: 0 when absent.
IndexOf(s, x) ==
  IF Has(s, x)
  THEN CHOOSE i \in 1..Len(s) : s[i] = x /\ \A j \in 1..(i - 1) : s[j] # x
  ELSE 0

\* Array.prototype.lastIndexOf: 0 when absent.
LastIndexOf(s, x) ==
  IF Has(s, x)
  THEN CHOOSE i \in 1..Len(s) : s[i] = x /\ \A j \in (i + 1)..Len(s) : s[j] # x
  ELSE 0

\* Array.prototype.splice(i, 0, x) with the 0-based index i0.
InsertAt(s, i0, x) == SubSeq(s, 1, i0) \o <<x>> \o SubSeq(s, i0 + 1, Len(s))

\* Array.prototype.splice(i, 1) with the 1-based index i.
RemoveAt(s, i) == SubSeq(s, 1, i - 1) \o SubSeq(s, i + 1, Len(s))

\* Set.prototype.add on an insertion-ordered set kept as a sequence.
\* The one element of a set of one element.  {body : x \in {e}} works e out
\* once and names the result x in body.
The(S) == CHOOSE x \in S : TRUE

SetAdd(s, x) == IF Has(s, x) THEN s ELSE Append(s, x)

\* ------------------------------------------------------------ Graph: queries
\* The Graph object: its two maps and the id counter it draws from.
Graph == [byNode |-> byNode, byEdge |-> byEdge, globalId |-> globalId]

EmptyGraph == [byNode |-> EmptyMap, byEdge |-> EmptyMap, globalId |-> 0]

HasNode(G, n) == n \in DOMAIN G.byNode

HasEdge(G, e) == e \in DOMAIN G.byEdge

\* The types.AtNode record.
AtNode(edge, at, node, priorNode, afterNode) ==
  [edge |-> edge, at |-> at, node |-> node, priorNode |-> priorNode, afterNode |-> afterNode]

\* edgeDetails(edge), for an edge of the graph.
edgeDetails(G, edge) ==
  LET data == G.byEdge[edge] IN
  [lowNode |-> data.node[1], highNode |-> data.node[Len(data.node)],
   length |-> data.length, edge |-> edge, other |-> data.other]

\* The dir === 0 loop of #internalFindNodeIndex; i is the 1-based loop index.
RECURSIVE nearestScan(_, _, _, _, _)
nearestScan(virt, at, i, bestIndex, bestDistance) ==
  IF i > Len(virt) - 1 THEN bestIndex
  ELSE LET check == Abs(at - virt[i]) IN
       IF check < bestDistance THEN nearestScan(virt, at, i + 1, i, check)
       ELSE IF check > bestDistance THEN bestIndex
       ELSE nearestScan(virt, at, i + 1, bestIndex, bestDistance)

\* #internalFindNodeIndex(edge, at, dir), for an edge of the graph: the
\* 1-based index of the best matching node, 0 for "out of bounds".
internalFindNodeIndex(G, edge, at, dir) ==
  LET data == G.byEdge[edge]
      n == Len(data.node)
      isEdgeFind == \/ (at <= 0 /\ dir <= 0) \/ (at < 0 /\ dir > 0)
                    \/ (at >= data.length /\ dir >= 0) \/ (at > data.length /\ dir < 0)
      isLow == at <= 0
      checks == SelectSeq([i \in 1..n |-> i], LAMBDA i : Sign(at - data.virt[i]) = -dir)
  IN IF isEdgeFind
     THEN IF (isLow /\ dir = -1) \/ (~isLow /\ dir = 1) THEN 0
          ELSE IF isLow THEN 1 ELSE n
     ELSE IF dir = 0
     THEN nearestScan(data.virt, at, 1, Len(data.virt), Abs(at - data.length))
     ELSE IF Len(checks) = 0 THEN 0
     ELSE IF dir = 1 THEN IndexOf(data.node, data.node[checks[1]])
     ELSE LastIndexOf(data.node, data.node[checks[Len(checks)]])

\* The tail of #internalFindNode: the AtNode for a found index, or the
\* node-less AtNode for index -1.
atNodeForIndex(G, edge, at, index) ==
  LET data == G.byEdge[edge]
      n == Len(data.node)
  IN IF index = 0
     THEN AtNode(edge, at, NoId,
                 IF at > 0 THEN data.node[n] ELSE NoId,
                 IF at < data.length THEN data.node[1] ELSE NoId)
     ELSE AtNode(edge, data.virt[index], data.node[index],
                 IF index > 1 THEN data.node[index - 1] ELSE NoId,
                 IF index < n THEN data.node[index + 1] ELSE NoId)

\* findNode(edge, at, dir) = #internalFindNode with a direction.
findNode(G, edge, at, dir) ==
  atNodeForIndex(G, edge, at, internalFindNodeIndex(G, edge, at, dir))

\* exactNode(edge, at) = #internalFindNode with dir undefined.
exactNode(G, edge, at) ==
  LET data == G.byEdge[edge]
      index == IF at < 0 \/ at > data.length THEN 0
               ELSE IF at = data.length THEN Len(data.node)
               ELSE IndexOf(data.virt, at)
  IN atNodeForIndex(G, edge, at, index)

\* nodeOnEdge(edge, node) throws when the node is not on the edge.
nodeOnEdgeThrows(G, edge, node) ==
  ~HasEdge(G, edge) \/ ~Has(G.byEdge[edge].node, node)

nodeOnEdge(G, edge, node) ==
  LET data == G.byEdge[edge]
      index == IndexOf(data.node, node)
  IN AtNode(edge, data.virt[index], data.node[index],
            IF index > 1 THEN data.node[index - 1] ELSE NoId,
            IF index < Len(data.node) THEN data.node[index + 1] ELSE NoId)

\* linesAtNode(nodeId), for a node of the graph with a non-empty holder.
linesAtNode(G, nodeId) ==
  LET holder == G.byNode[nodeId].holder
  IN [i \in 1..Len(holder) |-> nodeOnEdge(G, holder[i], nodeId)]

\* dirsFromNode(nodeId): the insertion-ordered Set as a sequence.
RECURSIVE dirsFromLines(_, _, _)
dirsFromLines(lines, i, out) ==
  IF i > Len(lines) THEN out
  ELSE dirsFromLines(lines, i + 1, SetAdd(SetAdd(out, lines[i].afterNode), lines[i].priorNode))

dirsFromNode(G, nodeId) ==
  SelectSeq(dirsFromLines(linesAtNode(G, nodeId), 1, <<>>), LAMBDA x : x # NoId)

\* nodePos(nodeId): the position on the first edge of the holder set.
nodePosThrows(G, nodeId) ==
  \/ ~HasNode(G, nodeId)
  \/ Len(G.byNode[nodeId].holder) = 0
  \/ nodeOnEdgeThrows(G, G.byNode[nodeId].holder[1], nodeId)

nodePos(G, nodeId) == nodeOnEdge(G, G.byNode[nodeId].holder[1], nodeId)

\* The nodeVia closure of pairsAtNode: the node next to nodeId on side.edge
\* in direction side.dir; NoId when the closure throws.
nodeVia(G, nodeId, side) ==
  IF nodeOnEdgeThrows(G, side.edge, nodeId) THEN NoId
  ELSE findNode(G, side.edge, nodeOnEdge(G, side.edge, nodeId).at, side.dir).node

\* pairsAtNode(nodeId): [threw, ret], ret the list of pairs of node ids.
pairsAtNode(G, nodeId) ==
  IF ~HasNode(G, nodeId) THEN [threw |-> TRUE, ret |-> <<>>]
  ELSE
  LET data == G.byNode[nodeId]
      explicit == [i \in 1..Len(data.pairs) |->
                     <<nodeVia(G, nodeId, data.pairs[i][1]), nodeVia(G, nodeId, data.pairs[i][2])>>]
      bad == \/ \E i \in 1..Len(explicit) : explicit[i][1] = NoId \/ explicit[i][2] = NoId
             \/ \E i \in 1..Len(data.holder) : nodeOnEdgeThrows(G, data.holder[i], nodeId)
      interior == SelectSeq(data.holder, LAMBDA e :
                     LET k == IndexOf(G.byEdge[e].node, nodeId)
                     IN k # 1 /\ k # Len(G.byEdge[e].node))
      implicit == [i \in 1..Len(interior) |->
                     LET nodes == G.byEdge[interior[i]].node
                         k == IndexOf(nodes, nodeId)
                     IN <<nodes[k - 1], nodes[k + 1]>>]
  IN IF bad THEN [threw |-> TRUE, ret |-> <<>>]
     ELSE [threw |-> FALSE, ret |-> explicit \o implicit]

\* findBetween(lowNode, highNode): [threw, ...SegmentInfo].
findBetween(G, lowNode, highNode) ==
  LET none == [threw |-> TRUE, edge |-> NoId, dir |-> 0, length |-> 0, inner |-> <<>>,
               lowNode |-> lowNode, lowAt |-> 0, highNode |-> highNode, highAt |-> 0]
  IN
  IF lowNode = highNode \/ ~HasNode(G, lowNode) \/ ~HasNode(G, highNode) THEN none
  ELSE
  LET lowHolder == G.byNode[lowNode].holder
      shared == SelectSeq(lowHolder, LAMBDA e : Has(G.byNode[highNode].holder, e))
  IN IF Len(shared) = 0 THEN none
     ELSE
     LET sharedEdge == shared[1]
         edgeData == G.byEdge[sharedEdge]
         lowIndex == IndexOf(edgeData.node, lowNode)
         highIndex == IndexOf(edgeData.node, highNode)
     IN IF lowIndex = 0 \/ highIndex = 0 THEN none
        ELSE
        LET fwd == SubSeq(edgeData.node, lowIndex + 1, highIndex - 1)
            bwd == SubSeq(edgeData.node, highIndex + 1, lowIndex - 1)
            inner == IF lowIndex < highIndex THEN fwd
                     ELSE [i \in 1..Len(bwd) |-> bwd[Len(bwd) + 1 - i]]
            lowAt == edgeData.virt[lowIndex]
            highAt == edgeData.virt[highIndex]
        IN [threw |-> FALSE, edge |-> sharedEdge, dir |-> Sign(highAt - lowAt),
            length |-> Abs(lowAt - highAt), inner |-> inner,
            lowNode |-> lowNode, lowAt |-> lowAt, highNode |-> highNode, highAt |-> highAt]

\* ------------------------------------------------------------ Graph: updates
\* How a call ends: the graph it leaves, whether it threw, what it returned.
Done(G, ret) == [G |-> G, threw |-> FALSE, ret |-> ret]

Throw(G) == [G |-> G, threw |-> TRUE, ret |-> NoId]

\* add(length): a new edge with its two end nodes; ret is the edge id.
add(G, length) ==
  IF length <= 0 THEN Throw(G)
  ELSE
  LET id == G.globalId + 1
      low == G.globalId + 2
      high == G.globalId + 3
      data == [length |-> length, virt |-> <<0, length>>, node |-> <<low, high>>, other |-> {}]
      node == [holder |-> <<id>>, pairs |-> <<>>]
  IN Done([byNode |-> Put(Put(G.byNode, low, node), high, node),
           byEdge |-> Put(G.byEdge, id, data),
           globalId |-> G.globalId + 3], id)

\* The loop of splitEdge: the 0-based index i at which the new node goes.
RECURSIVE splitIndex(_, _, _)
splitIndex(virt, at, i) ==
  IF i < Len(virt) - 1 /\ ~(at < virt[i + 1]) THEN splitIndex(virt, at, i + 1) ELSE i

\* splitEdge(edge, at): ret is the AtNode of the node at that place.
splitEdge(G, edge, at) ==
  IF ~HasEdge(G, edge) THEN Throw(G)
  ELSE
  LET exact == exactNode(G, edge, at)
      data == G.byEdge[edge]
      i == splitIndex(data.virt, at, 0)
      newId == G.globalId + 1
      newData == [data EXCEPT !.virt = InsertAt(data.virt, i, at),
                              !.node = InsertAt(data.node, i, newId)]
  IN IF exact.node # NoId THEN Done(G, exact)
     ELSE IF i - 1 < 0 THEN Throw(G)
     ELSE Done([byNode |-> Put(G.byNode, newId, [holder |-> <<edge>>, pairs |-> <<>>]),
                byEdge |-> [G.byEdge EXCEPT ![edge] = newData],
                globalId |-> newId],
               AtNode(edge, at, newId, newData.node[i], newData.node[i + 2]))

\* An inlineLessSort that swaps two elements neither of which is less.
inlineLessSortSwapTies(lessAB, lessBA, a, b) ==
  IF lessAB THEN <<a, b>> ELSE <<b, a>>

\* inlineLessSort(less, [a, b]) for two elements: Array.prototype.sort is
\* stable, so the order changes only when b is less than a.
inlineLessSort(lessAB, lessBA, a, b) ==
  IF ~lessAB /\ lessBA THEN <<b, a>> ELSE <<a, b>>

\* The first check of mergeNode: a and b lie on a common edge.
mergeTouchSameEdge(G, a, b) ==
  \E i \in 1..Len(G.byNode[b].holder) : Has(G.byNode[a].holder, G.byNode[b].holder[i])

\* A second check that also follows the 'other' sets one edge further.
mergeConnectTwiceFar(G, a, b) ==
  \E i \in 1..Len(G.byNode[a].holder) :
     \E o \in G.byEdge[G.byNode[a].holder[i]].other :
        \/ Has(G.byNode[b].holder, o)
        \/ \E p \in G.byEdge[o].other : Has(G.byNode[b].holder, p)

\* The second check of mergeNode: an edge at a is already connected to an edge at b.
mergeConnectTwice(G, a, b) ==
  \E i \in 1..Len(G.byNode[a].holder) :
     \E o \in G.byEdge[G.byNode[a].holder[i]].other : Has(G.byNode[b].holder, o)

\* Set.prototype.add of every element of a sequence, in order.
RECURSIVE SetAddAll(_, _)
SetAddAll(s, xs) == IF Len(xs) = 0 THEN s ELSE SetAddAll(SetAdd(s, Head(xs)), Tail(xs))

\* The destructive part of mergeNode without the rewrite of the node lists
\* of the edges the removed node was on.
mergeApplyNoRewrite(G, remove, remain) ==
  LET rm == G.byNode[remove]
      rn == G.byNode[remain]
      holder == SetAddAll(rn.holder, rm.holder)
      holderSet == SeqToSet(holder)
      edges == [e \in DOMAIN G.byEdge |->
                 [G.byEdge[e] EXCEPT
                    !.other = IF e \in holderSet THEN @ \cup (holderSet \ {e}) ELSE @]]
      nodes == Del([G.byNode EXCEPT ![remain] = [holder |-> holder, pairs |-> rn.pairs \o rm.pairs]],
                   remove)
  IN [byNode |-> nodes, byEdge |-> edges, globalId |-> G.globalId]

\* mergeNode that marks the edges at the node as connected to the edges of
\* the node that remains only.
mergeApplyOneWay(G, remove, remain) ==
  LET rm == G.byNode[remove]
      rn == G.byNode[remain]
      holder == SetAddAll(rn.holder, rm.holder)
      holderSet == SeqToSet(holder)
      rewrite(e) == [i \in 1..Len(G.byEdge[e].node) |->
                       IF G.byEdge[e].node[i] = remove THEN remain ELSE G.byEdge[e].node[i]]
      edges == [e \in DOMAIN G.byEdge |->
                 [G.byEdge[e] EXCEPT
                    !.node = IF Has(rm.holder, e) THEN rewrite(e) ELSE @,
                    !.other = IF e \in holderSet THEN @ \cup (SeqToSet(rn.holder) \ {e}) ELSE @]]
      nodes == Del([G.byNode EXCEPT ![remain] = [holder |-> holder, pairs |-> rn.pairs \o rm.pairs]],
                   remove)
  IN [byNode |-> nodes, byEdge |-> edges, globalId |-> G.globalId]

\* The destructive part of mergeNode (graph.js 526-558).
mergeApply(G, remove, remain) ==
  LET rm == G.byNode[remove]
      rn == G.byNode[remain]
      holder == SetAddAll(rn.holder, rm.holder)
      holderSet == SeqToSet(holder)
      rewrite(e) == [i \in 1..Len(G.byEdge[e].node) |->
                       IF G.byEdge[e].node[i] = remove THEN remain ELSE G.byEdge[e].node[i]]
      edges == [e \in DOMAIN G.byEdge |->
                 [G.byEdge[e] EXCEPT
                    !.node = IF Has(rm.holder, e) THEN rewrite(e) ELSE @,
                    !.other = IF e \in holderSet THEN @ \cup (holderSet \ {e}) ELSE @]]
      nodes == Del([G.byNode EXCEPT ![remain] = [holder |-> holder, pairs |-> rn.pairs \o rm.pairs]],
                   remove)
  IN [byNode |-> nodes, byEdge |-> edges, globalId |-> G.globalId]

\* A mergeNode that merges before it looks for a double connection.
mergeNodeCheckLate(G, a, b) ==
  IF a = b THEN Done(G, a)
  ELSE IF ~HasNode(G, a) \/ ~HasNode(G, b) THEN Throw(G)
  ELSE IF mergeTouchSameEdge(G, a, b) THEN Throw(G)
  ELSE LET sorted == inlineLessSort(Len(G.byNode[a].holder) < Len(G.byNode[b].holder),
                                    Len(G.byNode[b].holder) < Len(G.byNode[a].holder), a, b)
       IN IF mergeConnectTwice(G, a, b) THEN Throw(mergeApply(G, sorted[1], sorted[2]))
          ELSE Done(mergeApply(G, sorted[1], sorted[2]), sorted[2])

\* A mergeNode that never looks for a double connection.
mergeNodeNoTwice(G, a, b) ==
  IF a = b THEN Done(G, a)
  ELSE IF ~HasNode(G, a) \/ ~HasNode(G, b) THEN Throw(G)
  ELSE IF mergeTouchSameEdge(G, a, b) THEN Throw(G)
  ELSE LET sorted == inlineLessSort(Len(G.byNode[a].holder) < Len(G.byNode[b].holder),
                                    Len(G.byNode[b].holder) < Len(G.byNode[a].holder), a, b)
       IN Done(mergeApply(G, sorted[1], sorted[2]), sorted[2])

\* A mergeNode that does not look whether the two nodes lie on a common edge.
mergeNodeNoTouch(G, a, b) ==
  IF a = b THEN Done(G, a)
  ELSE IF ~HasNode(G, a) \/ ~HasNode(G, b) THEN Throw(G)
  ELSE LET sorted == inlineLessSort(Len(G.byNode[a].holder) < Len(G.byNode[b].holder),
                                    Len(G.byNode[b].holder) < Len(G.byNode[a].holder), a, b)
       IN IF mergeConnectTwice(G, a, b) THEN Throw(G)
          ELSE Done(mergeApply(G, sorted[1], sorted[2]), sorted[2])

\* mergeNode(a, b): ret is the id of the node that remains.
mergeNode(G, a, b) ==
  IF a = b THEN Done(G, a)
  ELSE IF ~HasNode(G, a) \/ ~HasNode(G, b) THEN Throw(G)
  ELSE IF mergeTouchSameEdge(G, a, b) THEN Throw(G)
  ELSE LET sorted == inlineLessSort(Len(G.byNode[a].holder) < Len(G.byNode[b].holder),
                                    Len(G.byNode[b].holder) < Len(G.byNode[a].holder), a, b)
       IN IF mergeConnectTwice(G, a, b) THEN Throw(G)
          ELSE Done(mergeApply(G, sorted[1], sorted[2]), sorted[2])

\* pairSideIsLess(a, b)
pairSideIsLess(a, b) ==
  IF a.edge < b.edge THEN TRUE ELSE IF a.edge > b.edge THEN FALSE ELSE a.dir < b.dir

\* pairSideEqual(a, b)
pairSideEqual(a, b) == a.dir = b.dir /\ a.edge = b.edge

\* A join that stores the two sides in the order of its arguments.
joinNoSort(G, a, via, b) ==
  IF a = b \/ a = via \/ b = via THEN Throw(G)
  ELSE
  LET betweenA == findBetween(G, via, a)
      betweenB == findBetween(G, via, b)
  IN IF betweenA.threw \/ betweenB.threw THEN Throw(G)
     ELSE IF betweenA.edge = betweenB.edge THEN Throw(G)
     ELSE
     LET sideA == [edge |-> betweenA.edge, dir |-> betweenA.dir]
         sideB == [edge |-> betweenB.edge, dir |-> betweenB.dir]
         sorted == <<sideA, sideB>>
         pairs == G.byNode[via].pairs
         exists == \E i \in 1..Len(pairs) :
                      pairSideEqual(pairs[i][1], sorted[1]) /\ pairSideEqual(pairs[i][2], sorted[2])
     IN IF exists THEN Done(G, FALSE)
        ELSE Done([G EXCEPT !.byNode[via].pairs = Append(@, sorted)], TRUE)

\* join(a, via, b): ret is TRUE when the pair was added.
join(G, a, via, b) ==
  IF a = b \/ a = via \/ b = via THEN Throw(G)
  ELSE
  LET betweenA == findBetween(G, via, a)
      betweenB == findBetween(G, via, b)
  IN IF betweenA.threw \/ betweenB.threw THEN Throw(G)
     ELSE IF betweenA.edge = betweenB.edge THEN Throw(G)
     ELSE
     LET sideA == [edge |-> betweenA.edge, dir |-> betweenA.dir]
         sideB == [edge |-> betweenB.edge, dir |-> betweenB.dir]
         sorted == inlineLessSort(pairSideIsLess(sideA, sideB), pairSideIsLess(sideB, sideA),
                                  sideA, sideB)
         pairs == G.byNode[via].pairs
         exists == \E i \in 1..Len(pairs) :
                      pairSideEqual(pairs[i][1], sorted[1]) /\ pairSideEqual(pairs[i][2], sorted[2])
     IN IF exists THEN Done(G, FALSE)
        ELSE Done([G EXCEPT !.byNode[via].pairs = Append(@, sorted)], TRUE)

\* #internalDeleteNode(node): takes a node made by splitEdge out again.
internalDeleteNode(G, node) ==
  IF ~HasNode(G, node) THEN Throw(G)
  ELSE
  LET nodeData == G.byNode[node] IN
  IF Len(nodeData.holder) # 1 THEN Throw(G)
  ELSE IF Len(nodeData.pairs) # 0 THEN Throw(G)
  ELSE
  LET edge == nodeData.holder[1]
      data == G.byEdge[edge]
      index == IndexOf(data.node, node)
  IN IF index <= 1 \/ index >= Len(data.node) THEN Throw(G)
     ELSE Done([byNode |-> Del(G.byNode, node),
                byEdge |-> [G.byEdge EXCEPT ![edge] =
                              [data EXCEPT !.node = RemoveAt(data.node, index),
                                           !.virt = RemoveAt(data.virt, index)]],
                globalId |-> G.globalId], NoId)

\* ------------------------------------------------------------ Graph: search
SearchSteps == 1000   \* "let steps = 1000" of #internalSearch

\* The requests of search: types.AtNodeRequest / AtNodeDirRequest.  hasAt is
\* FALSE when the field at is undefined.
NodeReq(node, prevNode) ==
  [node |-> node, edge |-> NoId, hasAt |-> FALSE, at |-> 0, prevNode |-> prevNode]

EdgeReq(edge, at, prevNode) ==
  [node |-> NoId, edge |-> edge, hasAt |-> TRUE, at |-> at, prevNode |-> prevNode]

EmptyReq == [node |-> NoId, edge |-> NoId, hasAt |-> FALSE, at |-> 0, prevNode |-> NoId]

\* The ensureNode closure of search: the node a request stands for, made by
\* splitEdge (fake) when no node is at that place.
ensureNode(G, req) ==
  LET fail == [G |-> G, threw |-> TRUE, node |-> NoId, prevNode |-> req.prevNode, fake |-> FALSE]
  IN
  IF req.node # NoId
  THEN IF req.edge # NoId \/ (req.hasAt /\ req.at # 0) THEN fail
       ELSE [G |-> G, threw |-> FALSE, node |-> req.node, prevNode |-> req.prevNode, fake |-> FALSE]
  ELSE IF req.edge = NoId \/ ~req.hasAt THEN fail
  ELSE IF ~HasEdge(G, req.edge) THEN fail
  ELSE
  LET exact == exactNode(G, req.edge, req.at)
      created == splitEdge(G, req.edge, req.at)
  IN IF exact.node # NoId
     THEN [G |-> G, threw |-> FALSE, node |-> exact.node, prevNode |-> req.prevNode, fake |-> FALSE]
     ELSE IF created.threw THEN fail
     ELSE [G |-> created.G, threw |-> FALSE, node |-> created.ret.node,
           prevNode |-> req.prevNode, fake |-> TRUE]

\* A SearchHead.  The prev pointers are kept as chain: the nodes from this
\* head back to the head without prev; rootPrev is that head's prevNode.
SearchHead(node, prevNode, chain, rootPrev) ==
  [node |-> node, prevNode |-> prevNode, chain |-> chain, rootPrev |-> rootPrev]

\* The state of the loop of #internalSearch.  visited is the Set the loop
\* consults; expanded and repeat record which hops (prevNode -> node) the
\* loop has expanded and whether one was expanded twice.
SearchState(heads, status) ==
  [heads |-> heads, steps |-> SearchSteps, status |-> status, path |-> <<>>,
   visited |-> {}, expanded |-> {}, repeat |-> FALSE]

\* The heads and early returns before the loop (graph.js 770-786).
searchStart(G, from, to) ==
  IF from.prevNode # NoId
  THEN IF from.node = to
       THEN [SearchState(<<>>, "found") EXCEPT !.path = <<to, from.prevNode>>]
       ELSE SearchState(<<SearchHead(from.node, from.prevNode, <<from.node>>, from.prevNode)>>, "run")
  ELSE IF from.node = to
  THEN [SearchState(<<>>, "found") EXCEPT !.path = <<to>>]
  ELSE IF \/ ~HasNode(G, from.node)
          \/ \E i \in 1..Len(G.byNode[from.node].holder) :
                nodeOnEdgeThrows(G, G.byNode[from.node].holder[i], from.node)
  THEN SearchState(<<>>, "threw")
  ELSE LET dirs == dirsFromNode(G, from.node)
       IN SearchState([i \in 1..Len(dirs) |-> SearchHead(dirs[i], from.node, <<dirs[i]>>, from.node)],
                      "run")

\* searchStep with every neighbour of next.node but the one it came from as a
\* choice, whatever pairsAtNode says.
searchStepAnyTurn(G, to, S) ==
  IF S.status # "run" THEN S
  ELSE IF Len(S.heads) = 0 THEN [S EXCEPT !.status = "null"]
  ELSE IF S.steps - 1 = 0 THEN [S EXCEPT !.status = "threw", !.steps = 0]
  ELSE
  LET next == Head(S.heads)
      pairs == pairsAtNode(G, next.node)
      choices == SelectSeq(dirsFromNode(G, next.node), LAMBDA d : d # next.prevNode)
      segmentBad == \E i \in 1..Len(choices) :
                       LET segment == findBetween(G, next.node, choices[i])
                       IN segment.threw \/ Len(segment.inner) # 0
      fresh == SelectSeq(choices, LAMBDA c : <<next.node, c>> \notin S.visited)
      pushed == [i \in 1..Len(fresh) |->
                   SearchHead(fresh[i], next.node, <<fresh[i]>> \o next.chain, next.rootPrev)]
      hop == <<next.prevNode, next.node>>
  IN IF next.node = to
     THEN [S EXCEPT !.status = "found", !.steps = @ - 1,
                    !.path = next.chain \o (IF next.rootPrev # NoId THEN <<next.rootPrev>> ELSE <<>>)]
     ELSE IF pairs.threw \/ segmentBad THEN [S EXCEPT !.status = "threw", !.steps = @ - 1]
     ELSE [S EXCEPT !.heads = Tail(S.heads) \o pushed, !.steps = @ - 1,
                    !.expanded = @ \cup {hop}, !.repeat = @ \/ hop \in S.expanded]

\* One turn of the for (;;) loop of #internalSearch.
searchStep(G, to, S) ==
  IF S.status # "run" THEN S
  ELSE IF Len(S.heads) = 0 THEN [S EXCEPT !.status = "null"]
  ELSE IF S.steps - 1 = 0 THEN [S EXCEPT !.status = "threw", !.steps = 0]
  ELSE
  LET next == Head(S.heads)
      pairs == pairsAtNode(G, next.node)
      match == SelectSeq(pairs.ret, LAMBDA p : p[1] = next.prevNode \/ p[2] = next.prevNode)
      choices == [i \in 1..Len(match) |->
                    IF match[i][1] = next.prevNode THEN match[i][2] ELSE match[i][1]]
      segmentBad == \E i \in 1..Len(choices) :
                       LET segment == findBetween(G, next.node, choices[i])
                       IN segment.threw \/ Len(segment.inner) # 0
      fresh == SelectSeq(choices, LAMBDA c : <<next.node, c>> \notin S.visited)
      pushed == [i \in 1..Len(fresh) |->
                   SearchHead(fresh[i], next.node, <<fresh[i]>> \o next.chain, next.rootPrev)]
      hop == <<next.prevNode, next.node>>
  IN IF next.node = to
     THEN [S EXCEPT !.status = "found", !.steps = @ - 1,
                    !.path = next.chain \o (IF next.rootPrev # NoId THEN <<next.rootPrev>> ELSE <<>>)]
     ELSE IF pairs.threw \/ segmentBad THEN [S EXCEPT !.status = "threw", !.steps = @ - 1]
     ELSE [S EXCEPT !.heads = Tail(S.heads) \o pushed, !.steps = @ - 1,
                    !.expanded = @ \cup {hop}, !.repeat = @ \/ hop \in S.expanded]

\* n turns of the loop, by halves (the loop ends once status is not "run").
RECURSIVE searchLoop(_, _, _, _)
searchLoop(G, to, S, n) ==
  IF S.status # "run" \/ n = 0 THEN S
  ELSE IF n = 1 THEN searchStep(G, to, S)
  ELSE The({searchLoop(G, to, half, n - (n \div 2)) : half \in {searchLoop(G, to, S, n \div 2)}})

\* #internalSearch(from, to): the final state of its loop.
internalSearch(G, from, to) ==
  The({searchLoop(G, to, S, SearchSteps) : S \in {searchStart(G, from, to)}})

\* cleanup.forEach((fn) => fn()) of search's finally block.
RECURSIVE runCleanup(_, _)
runCleanup(G, cleanup) ==
  IF Len(cleanup) = 0 THEN Done(G, NoId)
  ELSE LET r == internalDeleteNode(G, Head(cleanup))
       IN IF r.threw THEN r ELSE runCleanup(r.G, Tail(cleanup))

\* What search hands back.  ret is the list of positions (<<>> also stands
\* for null, told apart by found); walk is the node path before the fake
\* nodes are blanked; during is the graph the loop ran on.
searchOut(H, threw, found, ret, walk, repeat, during) ==
  [G |-> H, threw |-> threw, found |-> found, ret |-> ret, walk |-> walk,
   repeat |-> repeat, during |-> during]

\* The try / finally of search (graph.js 724-749), on the graph H that the
\* two ensureNode calls left.
searchTry(H, nodeFrom, nodeTo) ==
  LET cleanup == (IF nodeFrom.fake THEN <<nodeFrom.node>> ELSE <<>>)
                 \o (IF nodeTo.fake THEN <<nodeTo.node>> ELSE <<>>)
      fakeSet == SeqToSet(cleanup)
      from == [node |-> nodeFrom.node, prevNode |-> nodeFrom.prevNode]
  IN The({
       LET posBad == \E i \in 1..Len(S.path) : nodePosThrows(H, S.path[i])
           positions == [i \in 1..Len(S.path) |->
                           LET at == nodePos(H, S.path[i])
                           IN IF S.path[i] \in fakeSet THEN [at EXCEPT !.node = NoId] ELSE at]
       IN IF cleaned.threw THEN searchOut(cleaned.G, TRUE, FALSE, <<>>, <<>>, S.repeat, H)
          ELSE IF S.status = "threw" THEN searchOut(cleaned.G, TRUE, FALSE, <<>>, <<>>, S.repeat, H)
          ELSE IF S.status = "null" THEN searchOut(cleaned.G, FALSE, FALSE, <<>>, <<>>, S.repeat, H)
          ELSE IF posBad THEN searchOut(cleaned.G, TRUE, FALSE, <<>>, <<>>, S.repeat, H)
          ELSE searchOut(cleaned.G, FALSE, TRUE, positions, S.path, S.repeat, H)
       : S \in {internalSearch(H, from, nodeTo.node)}, cleaned \in {runCleanup(H, cleanup)}})

\* search(from, to): ensureNode(from), ensureNode(to), then the try.  A
\* throw of either ensureNode leaves search before its try.
search(G, from, to) ==
  The({
    IF nodeFrom.threw THEN searchOut(nodeFrom.G, TRUE, FALSE, <<>>, <<>>, FALSE, G)
    ELSE The({
      IF nodeTo.threw THEN searchOut(nodeTo.G, TRUE, FALSE, <<>>, <<>>, FALSE, G)
      ELSE searchTry(nodeTo.G, nodeFrom, nodeTo)
      : nodeTo \in {ensureNode(nodeFrom.G, to)}})
    : nodeFrom \in {ensureNode(G, from)}})

\* ------------------------------------------------------------ Graph: calls
\* What last keeps of a call: its name, whether it threw, its arguments and
\* what it returned, filed under the call's name (last.ret.search is what a
\* search returned).  The caller then takes the result (Return), and only
\* then is the next call made: the program is single-threaded and every
\* call runs to its end.
Call(op, threw, args, ret) ==
  [op |-> op, threw |-> threw, args |-> args, ret |-> [o \in {op} |-> ret]]

NoCall == Call("none", FALSE, <<>>, NoId)

Return ==
  /\ last.op # "none"
  /\ last' = NoCall
  /\ UNCHANGED <<byNode, byEdge, globalId, sNode, sReserve, arrays, heights, game, man>>

\* No HeightMap, TrainGame or SnakeMan has been made.
NoGame == [nodePos |-> EmptyMap, trainData |-> <<>>, lastTrainLoop |-> 0, loopIndex |-> 0]

NoMan == [part |-> EmptyMap, reservedEdge |-> EmptyMap, reservedNode |-> EmptyMap,
          bySnake |-> EmptyMap]

RestIdle == arrays = <<>> /\ heights = <<>> /\ game = NoGame /\ man = NoMan

SimpleIdle == sNode = EmptyMap /\ sReserve = EmptyMap /\ RestIdle

InitGraph ==
  /\ byNode = EmptyMap
  /\ byEdge = EmptyMap
  /\ globalId = 0
  /\ SimpleIdle
  /\ last = NoCall

SetGraph(H) ==
  /\ byNode' = H.byNode
  /\ byEdge' = H.byEdge
  /\ globalId' = H.globalId
  /\ UNCHANGED <<sNode, sReserve, arrays, heights, game, man>>

Add ==
  /\ last.op = "none"
  /\ \E length \in {0, MaxLen} :
     \E r \in {add(Graph, length)} :
       /\ r.G.globalId <= MaxId
       /\ SetGraph(r.G)
       /\ last' = Call("add", r.threw, <<length>>, r.ret)

SplitEdge ==
  /\ last.op = "none"
  /\ \E edge \in DOMAIN byEdge, at \in (-1)..(MaxLen + 1) :
     \E r \in {splitEdge(Graph, edge, at)} :
       /\ r.G.globalId <= MaxId
       /\ SetGraph(r.G)
       /\ last' = Call("splitEdge", r.threw, <<edge, at>>, r.ret)

MergeNode ==
  /\ last.op = "none"
  /\ \E a \in DOMAIN byNode, b \in DOMAIN byNode :
     \E r \in {mergeNode(Graph, a, b)} :
       /\ SetGraph(r.G)
       /\ last' = Call("mergeNode", r.threw, <<a, b>>, r.ret)

Join ==
  /\ last.op = "none"
  /\ \E a \in DOMAIN byNode, via \in DOMAIN byNode, b \in DOMAIN byNode :
     \E r \in {join(Graph, a, via, b)} :
       /\ SetGraph(r.G)
       /\ last' = Call("join", r.threw, <<a, via, b>>, r.ret)

\* The requests the model makes of search: a place on an edge (one that a
\* split can reach, or one below the edge), a node of the graph with or
\* without a node to come from, or nothing at all.
PlaceRequests == {EdgeReq(e, at, NoId) : e \in DOMAIN byEdge, at \in {-1, 1}}

FromRequests ==
  {NodeReq(n, p) : n \in DOMAIN byNode, p \in (DOMAIN byNode) \cup {NoId}} \cup PlaceRequests

ToRequests ==
  {NodeReq(n, NoId) : n \in DOMAIN byNode} \cup PlaceRequests \cup {EmptyReq}

SearchResult(r) == [found |-> r.found, positions |-> r.ret, walk |-> r.walk, repeat |-> r.repeat]

\* search(from, to), with at most idCap identifiers drawn so far.
SearchCall(froms, tos, idCap) ==
  /\ last.op = "none"
  /\ \E from \in froms, to \in tos :
     \E r \in {search(Graph, from, to)} :
       /\ r.G.globalId <= idCap
       /\ SetGraph(r.G)
       /\ last' = Call("search", r.threw, <<from, to>>, SearchResult(r))

\* In SpecGraph the searches are those that can change the graph or draw
\* identifiers: the ones between places on edges.
Search == SearchCall(PlaceRequests, PlaceRequests \cup {EmptyReq}, MaxId)

NextGraph == Add \/ SplitEdge \/ MergeNode \/ Join \/ Search \/ Return

SpecGraph == InitGraph /\ [][NextGraph]_vars

\* ------------------------------------------------------------ search on a junction graph
\* The graph SpecSearch starts from, made by the calls themselves: three
\* edges, the first one split in the middle, merged end to end into a
\* triangle whose corner on the first edge is the split node, so that the low
\* end of the first edge sticks out of the triangle.  No pair is joined yet.
\*   add, add, add          edges 1 [2,3], 4 [5,6], 7 [8,9]
\*   splitEdge(1, 1)        edge 1 becomes [2,10,3]
\*   mergeNode(3, 5), mergeNode(6, 8), mergeNode(9, 10)
TriangleGraph ==
  The({The({The({The({The({The({mergeNode(g6, 9, 10).G
    : g6 \in {mergeNode(g5, 6, 8).G}})
    : g5 \in {mergeNode(g4, 3, 5).G}})
    : g4 \in {splitEdge(g3, 1, 1).G}})
    : g3 \in {add(g2, MaxLen).G}})
    : g2 \in {add(g1, MaxLen).G}})
    : g1 \in {add(EmptyGraph, MaxLen).G}})

InitSearch ==
  /\ byNode = TriangleGraph.byNode
  /\ byEdge = TriangleGraph.byEdge
  /\ globalId = TriangleGraph.globalId
  /\ SimpleIdle
  /\ last = NoCall

\* In SpecSearch every request is made, and the searches draw at most
\* MaxFake identifiers between them.
SearchAll == SearchCall(FromRequests, ToRequests, TriangleGraph.globalId + MaxFake)

NextSearch == Join \/ SearchAll \/ Return

SpecSearch == InitSearch /\ [][NextSearch]_vars

\* ------------------------------------------------------------ Graph: queries as calls
\* findNode(edge, at, dir), at up to one beyond either end of the edge.
FindNode ==
  /\ last.op = "none"
  /\ \E edge \in DOMAIN byEdge, at \in (-1)..(MaxLen + 1), dir \in {-1, 0, 1} :
     \E r \in {findNode(Graph, edge, at, dir)} :
       /\ last' = Call("findNode", FALSE, <<edge, at, dir>>, r)
       /\ UNCHANGED <<byNode, byEdge, globalId, sNode, sReserve, arrays, heights, game, man>>

\* pairsAtNode(nodeId).
PairsAtNode ==
  /\ last.op = "none"
  /\ \E nodeId \in DOMAIN byNode :
     \E r \in {pairsAtNode(Graph, nodeId)} :
       /\ last' = Call("pairsAtNode", r.threw, <<nodeId>>, r.ret)
       /\ UNCHANGED <<byNode, byEdge, globalId, sNode, sReserve, arrays, heights, game, man>>

\* SpecQuery: the graph is built up from nothing as in SpecGraph, and asked
\* about in every state it comes to.
NextQuery == Add \/ SplitEdge \/ MergeNode \/ Join \/ FindNode \/ PairsAtNode \/ Return

SpecQuery == InitGraph /\ [][NextQuery]_vars

\* ------------------------------------------------------------ merging three edges
\* The graph SpecMerge starts from, made by three add calls: edges 1 [2,3],
\* 4 [5,6] and 7 [8,9], no two of them connected.
ThreeEdges ==
  The({The({add(g2, MaxLen).G
    : g2 \in {add(g1, MaxLen).G}})
    : g1 \in {add(EmptyGraph, MaxLen).G}})

InitMerge ==
  /\ byNode = ThreeEdges.byNode
  /\ byEdge = ThreeEdges.byEdge
  /\ globalId = ThreeEdges.globalId
  /\ SimpleIdle
  /\ last = NoCall

NextMerge == MergeNode \/ Return

SpecMerge == InitMerge /\ [][NextMerge]_vars

\* ------------------------------------------------------------ Graph: claims
\* The nodes two edges have in common.
Common(e, f) == SeqToSet(byEdge[e].node) \cap SeqToSet(byEdge[f].node)

\* C1: after any sequence of add, splitEdge, mergeNode, join and search
\* calls, also ones that throw, two distinct edges have at most one node in
\* common.
C1_AtMostOneCommonNode ==
  \A e \in DOMAIN byEdge, f \in DOMAIN byEdge :
    e # f => Cardinality(Common(e, f)) <= 1

\* C1 is at stake: two edges already meet in a node and a mergeNode that
\* would have joined them a second time has just been refused.
C1_Witness ==
  /\ last.op = "mergeNode" /\ last.threw
  /\ ~mergeTouchSameEdge(Graph, last.args[1], last.args[2])
  /\ \E e \in DOMAIN byEdge, f \in DOMAIN byEdge : e # f /\ Cardinality(Common(e, f)) = 1

\* C6: a mergeNode(a, b) that throws leaves the node table and every edge
\* (node list, positions, 'other' set), every holder set and every pair list
\* as they were.
C6_MergeThrowChangesNothing ==
  [][(last'.op = "mergeNode" /\ last'.threw) => (byNode' = byNode /\ byEdge' = byEdge)]_vars

\* C6 is at stake: a mergeNode was refused by the second check, the one made
\* after the nodes were found to lie on no common edge.
C6_Witness ==
  /\ last.op = "mergeNode" /\ last.threw
  /\ ~mergeTouchSameEdge(Graph, last.args[1], last.args[2])
  /\ mergeConnectTwice(Graph, last.args[1], last.args[2])
  /\ Len(byNode[last.args[1]].holder) + Len(byNode[last.args[2]].holder) >= 2


\* No element of the sequence comes twice.
NoRepeat(s) == \A i \in 1..Len(s), j \in 1..Len(s) : i # j => s[i] # s[j]

\* Some edge has both a and b in its node list.
OnSameEdge(a, b) ==
  \E e \in DOMAIN byEdge : Has(byEdge[e].node, a) /\ Has(byEdge[e].node, b)

\* C11: mergeNode(a, b) with a # b throws whenever some edge contains both a
\* and b, and after every call no edge has a node at two places of its node
\* list.
C11_NoNodeTwiceOnEdge ==
  [][/\ (/\ last'.op = "mergeNode"
          /\ last'.args[1] # last'.args[2]
          /\ OnSameEdge(last'.args[1], last'.args[2])) => last'.threw
     /\ \A e \in DOMAIN byEdge' : NoRepeat(byEdge'[e].node)]_vars

\* C11 is at stake: a mergeNode of two different nodes of one edge, one of
\* them made by a split of that edge, has just been refused.
C11_Witness ==
  /\ last.op = "mergeNode" /\ last.threw
  /\ last.args[1] # last.args[2]
  /\ \E e \in DOMAIN byEdge :
       /\ Has(byEdge[e].node, last.args[1]) /\ Has(byEdge[e].node, last.args[2])
       /\ Len(byEdge[e].node) >= 3

\* The position list of an edge runs from 0 to the edge's length, strictly upwards.
PositionsInOrder(data) ==
  /\ data.virt[1] = 0
  /\ data.virt[Len(data.virt)] = data.length
  /\ \A i \in 1..(Len(data.virt) - 1) : data.virt[i] < data.virt[i + 1]

\* C12: after every call every edge's position list starts at 0, ends at
\* the edge's length and is strictly increasing, and a splitEdge at a
\* position below 0 or above the edge's length adds no node to the edge.
C12_PositionsInOrder ==
  [][/\ \A e \in DOMAIN byEdge' : PositionsInOrder(byEdge'[e])
     /\ (/\ last'.op = "splitEdge"
          /\ \/ last'.args[2] < 0
             \/ last'.args[2] > byEdge[last'.args[1]].length)
          => byEdge'[last'.args[1]].node = byEdge[last'.args[1]].node]_vars

\* The node list of an edge with every remove replaced by remain.
Rewritten(node, remove, remain) ==
  [i \in 1..Len(node) |-> IF node[i] = remove THEN remain ELSE node[i]]

\* C13: after every call a node is in an edge's node list exactly when the
\* edge is in the node's holder set, and every node of a node list is a node
\* of the node table; a successful mergeNode leaves every node list as it
\* was but for the removed node, replaced where it stood by the survivor.
C13_HolderMatchesNodeList ==
  [][/\ \A v \in DOMAIN byNode', e \in DOMAIN byEdge' :
          Has(byEdge'[e].node, v) <=> Has(byNode'[v].holder, e)
     /\ \A v \in DOMAIN byNode' : SeqToSet(byNode'[v].holder) \subseteq DOMAIN byEdge'
     /\ \A e \in DOMAIN byEdge' : SeqToSet(byEdge'[e].node) \subseteq DOMAIN byNode'
     /\ (last'.op = "mergeNode" /\ ~last'.threw /\ last'.args[1] # last'.args[2])
          => \E remove \in {last'.args[1], last'.args[2]} \ {last'.ret.mergeNode} :
               /\ remove \notin DOMAIN byNode'
               /\ DOMAIN byEdge' = DOMAIN byEdge
               /\ \A e \in DOMAIN byEdge :
                    byEdge'[e].node = Rewritten(byEdge[e].node, remove, last'.ret.mergeNode)
                    /\ byEdge'[e].virt = byEdge[e].virt]_vars

\* C13 is at stake: a mergeNode has put its survivor on two edges, inside
\* one of them.
C13_Witness ==
  /\ last.op = "mergeNode" /\ ~last.threw
  /\ last.args[1] # last.args[2]
  /\ Len(byNode[last.ret.mergeNode].holder) = 2
  /\ \E e \in DOMAIN byEdge :
       \E i \in 2..(Len(byEdge[e].node) - 1) : byEdge[e].node[i] = last.ret.mergeNode

\* The number of edges a node was on before the call.
HolderSize(n) == Len(byNode[n].holder)

\* C14 as stated: a successful mergeNode(a, b) with a # b returns the node
\* with the larger holder set, and a when the two sets have the same size.
C14_LargerOrFirstSurvives ==
  [][(last'.op = "mergeNode" /\ ~last'.threw /\ last'.args[1] # last'.args[2])
       => /\ last'.ret.mergeNode =
               (IF HolderSize(last'.args[2]) > HolderSize(last'.args[1])
                THEN last'.args[2] ELSE last'.args[1])
          /\ DOMAIN byNode' = DOMAIN byNode \ ({last'.args[1], last'.args[2]} \ {last'.ret.mergeNode})]_vars

\* C14 amended: a successful mergeNode(a, b) with a # b returns the node
\* with the larger holder set, and b when the two sets have the same size;
\* the other node is removed.
C14_LargerOrSecondSurvives ==
  [][(last'.op = "mergeNode" /\ ~last'.threw /\ last'.args[1] # last'.args[2])
       => /\ last'.ret.mergeNode =
               (IF HolderSize(last'.args[1]) > HolderSize(last'.args[2])
                THEN last'.args[1] ELSE last'.args[2])
          /\ DOMAIN byNode' = DOMAIN byNode \ ({last'.args[1], last'.args[2]} \ {last'.ret.mergeNode})]_vars

\* C14 is at stake: a mergeNode(a, b) has kept a, which can only have been
\* on more edges than b, and a is now on all three edges.
C14_Witness ==
  /\ last.op = "mergeNode" /\ ~last.threw
  /\ last.args[1] # last.args[2]
  /\ last.ret.mergeNode = last.args[1]
  /\ Len(byNode[last.args[1]].holder) = 3

\* The edges whose node list holds n.
EdgesAt(n) == {e \in DOMAIN byEdge : Has(byEdge[e].node, n)}

\* Some edge at a and some edge at b have a node in common.
EdgesAlreadyMeet(a, b) ==
  \E e \in EdgesAt(a), f \in EdgesAt(b) : Common(e, f) # {}

\* C15: mergeNode(a, b) of two different nodes throws only when some edge
\* at a and some edge at b already have a node in common (the same edge
\* included); so the three merges that close three separate edges into a
\* triangle all succeed, and two edges never come to share two nodes.
C15_RefusedOnlyWhenEdgesMeet ==
  [][/\ (/\ last'.op = "mergeNode"
          /\ last'.args[1] # last'.args[2]
          /\ last'.threw) => EdgesAlreadyMeet(last'.args[1], last'.args[2])
     /\ \A e \in DOMAIN byEdge', f \in DOMAIN byEdge' :
          e # f => Cardinality(SeqToSet(byEdge'[e].node) \cap SeqToSet(byEdge'[f].node)) <= 1]_vars

\* C15 is at stake: a mergeNode has just closed the triangle, every two of
\* the three edges now having exactly one node in common.
C15_Witness ==
  /\ last.op = "mergeNode" /\ ~last.threw
  /\ last.args[1] # last.args[2]
  /\ Cardinality(DOMAIN byEdge) = 3
  /\ \A e \in DOMAIN byEdge, f \in DOMAIN byEdge : e # f => Cardinality(Common(e, f)) = 1
  /\ \A n \in DOMAIN byNode : Len(byNode[n].holder) = 2

\* C16: findNode(e, at, 0) with at in [0, length] returns a node of the
\* edge no further from at than any other node of the edge, and of the
\* nodes that near the one at the lowest position.
C16_NearestLowerOnTies ==
  (/\ last.op = "findNode"
   /\ last.args[3] = 0
   /\ last.args[2] \in 0..byEdge[last.args[1]].length)
    => LET data == byEdge[last.args[1]]
           at == last.args[2]
           found == last.ret.findNode
       IN /\ \E k \in 1..Len(data.node) : data.node[k] = found.node /\ data.virt[k] = found.at
          /\ \A i \in 1..Len(data.virt) :
               /\ Abs(data.virt[i] - at) >= Abs(found.at - at)
               /\ Abs(data.virt[i] - at) = Abs(found.at - at) => found.at <= data.virt[i]

\* The found node is the node of the edge at position pos.
FoundAt(data, found, pos) ==
  \E k \in 1..Len(data.node) :
    data.virt[k] = pos /\ data.node[k] = found.node /\ found.at = pos

\* The positions of the nodes of an edge.
Positions(data) == SeqToSet(data.virt)

\* C17: findNode(e, at, +1) returns the node with the smallest position
\* above at, and no node when at >= length; findNode(e, at, -1) returns the
\* node with the largest position below at, and no node when at <= 0;
\* findNode(e, 0, 0) is the low end and findNode(e, length, 0) the high end.
C17_NextInDirection ==
  last.op = "findNode"
    => LET data == byEdge[last.args[1]]
           at == last.args[2]
           dir == last.args[3]
           found == last.ret.findNode
           above == {p \in Positions(data) : p > at}
           below == {p \in Positions(data) : p < at}
       IN /\ dir = 1 =>
               IF at >= data.length THEN found.node = NoId
               ELSE \E p \in above : FoundAt(data, found, p) /\ \A q \in above : p <= q
          /\ dir = -1 =>
               IF at <= 0 THEN found.node = NoId
               ELSE \E p \in below : FoundAt(data, found, p) /\ \A q \in below : q <= p
          /\ (dir = 0 /\ at = 0) => found.node = data.node[1]
          /\ (dir = 0 /\ at = data.length) => found.node = data.node[Len(data.node)]

\* The node next to v on the edge of side, one place along the node list in
\* the direction of side; NoId when v is the last node that way.
NeighbourAlong(v, side) ==
  LET node == byEdge[side.edge].node
      k == IndexOf(node, v) + side.dir
  IN IF IndexOf(node, v) # 0 /\ k \in 1..Len(node) THEN node[k] ELSE NoId

\* The edges of the holder set of v that v is inside of, in holder order.
InsideEdges(v) ==
  SelectSeq(byNode[v].holder,
            LAMBDA e : \E i \in 2..(Len(byEdge[e].node) - 1) : byEdge[e].node[i] = v)

\* C18: pairsAtNode(v) returns, for each pair stored at v, the two nodes
\* next to v along the two (edge, direction)s of the pair, and after them
\* one pair (node before, node after) for every edge v is inside of, and
\* none for an edge v is an end of.
C18_PairsAreNeighbours ==
  last.op = "pairsAtNode"
    => LET v == last.args[1]
           pairs == byNode[v].pairs
           inside == InsideEdges(v)
           out == last.ret.pairsAtNode
       IN /\ ~last.threw
          /\ Len(out) = Len(pairs) + Len(inside)
          /\ \A i \in 1..Len(pairs) :
               /\ out[i][1] # NoId /\ out[i][2] # NoId
               /\ out[i] = <<NeighbourAlong(v, pairs[i][1]), NeighbourAlong(v, pairs[i][2])>>
          /\ \A i \in 1..Len(inside) :
               out[Len(pairs) + i]
                 = <<NeighbourAlong(v, [edge |-> inside[i], dir |-> -1]),
                     NeighbourAlong(v, [edge |-> inside[i], dir |-> 1])>>

\* ------------------------------------------------------------ search: claims
\* The graph the loop of search runs on: the graph of the call with the
\* nodes ensureNode made for the two requests.
SearchGraph(G, from, to) == The({ensureNode(nodeFrom.G, to).G : nodeFrom \in {ensureNode(G, from)}})

\* u and v are next to each other on some edge of H.
Adjacent(H, u, v) ==
  \E e \in DOMAIN H.byEdge :
    \E i \in 1..(Len(H.byEdge[e].node) - 1) :
      {H.byEdge[e].node[i], H.byEdge[e].node[i + 1]} = {u, v}

\* (u, w) is among pairsAtNode(v).
PairAt(H, v, u, w) ==
  \E p \in {pairsAtNode(H, v)} :
    ~p.threw /\ \E i \in 1..Len(p.ret) : {p.ret[i][1], p.ret[i][2]} = {u, w}

RespectsJunctions(H, walk) ==
  /\ \A i \in 1..(Len(walk) - 1) : Adjacent(H, walk[i], walk[i + 1])
  /\ \A i \in 2..(Len(walk) - 1) : PairAt(H, walk[i], walk[i - 1], walk[i + 1])

\* The hint of the from request: none, or a node next to the source.
HintIsNeighbour(H, from) ==
  from.prevNode = NoId \/ \E nodeFrom \in {ensureNode(H, from)} : Adjacent(H, nodeFrom.node, from.prevNode)

\* C7: search(from, to) leaves the graph as it was before the call, whether
\* it returns a path, returns null or throws.
C7_SearchLeavesGraph ==
  [][last'.op = "search" => (byNode' = byNode /\ byEdge' = byEdge)]_vars

\* C8 as stated: every path search returns has consecutive nodes next to
\* each other on an edge, and every three consecutive nodes (u, v, w) have
\* the pair (u, w) among pairsAtNode(v).
C8_EveryPathRespectsJunctions ==
  [][(last'.op = "search" /\ last'.ret.search.found)
       => RespectsJunctions(SearchGraph(Graph, last'.args[1], last'.args[2]), last'.ret.search.walk)]_vars

\* C8 amended: the same, for a search whose from request names no prevNode
\* or names a node next to the source as prevNode.
C8_PathRespectsJunctions ==
  [][(/\ last'.op = "search"
      /\ last'.ret.search.found
      /\ HintIsNeighbour(SearchGraph(Graph, last'.args[1], last'.args[2]), last'.args[1]))
       => RespectsJunctions(SearchGraph(Graph, last'.args[1], last'.args[2]), last'.ret.search.walk)]_vars

\* A search with a prevNode found a path of four nodes or more: it took at
\* least one turn that a pair at a junction allows.
C8_Witness ==
  /\ last.op = "search"
  /\ last.ret.search.found
  /\ last.args[1].prevNode # NoId
  /\ Len(last.ret.search.walk) >= 4
  /\ \E i \in 2..(Len(last.ret.search.walk) - 1) : Len(byNode[last.ret.search.walk[i]].pairs) > 0

\* The hops (prev, node) a junction-respecting route can make in H.
StartHops(H, node, prevNode) ==
  IF prevNode # NoId THEN {<<prevNode, node>>}
  ELSE {<<node, d>> : d \in SeqToSet(dirsFromNode(H, node))}

NextHops(H, hop) ==
  \* hop[2] may be a prevNode that is no node of H
  IF ~HasNode(H, hop[2]) THEN {}
  ELSE LET pairs == pairsAtNode(H, hop[2]).ret
       IN {<<hop[2], IF pairs[i][1] = hop[1] THEN pairs[i][2] ELSE pairs[i][1]>> :
             i \in {j \in 1..Len(pairs) : pairs[j][1] = hop[1] \/ pairs[j][2] = hop[1]}}

RECURSIVE HopClosure(_, _)
HopClosure(H, hops) ==
  The({IF more = hops THEN hops ELSE HopClosure(H, more)
       : more \in {hops \cup UNION {NextHops(H, h) : h \in hops}}})

RouteExists(H, node, prevNode, to) ==
  node = to \/ \E hop \in HopClosure(H, StartHops(H, node, prevNode)) : hop[2] = to

\* C9: a search whose two requests resolve, on a graph with no
\* junction-respecting route from the source to the target, returns null,
\* cycles or not; and no search expands a hop (prev -> v) twice.
C9_NullWhenNoRoute ==
  [][last'.op = "search"
       => \A nodeFrom \in {ensureNode(Graph, last'.args[1])} :
            ~nodeFrom.threw =>
            \A nodeTo \in {ensureNode(nodeFrom.G, last'.args[2])} :
              ~nodeTo.threw =>
              /\ ~last'.ret.search.repeat
              /\ ~RouteExists(nodeTo.G, nodeFrom.node, nodeFrom.prevNode, nodeTo.node)
                   => (~last'.threw /\ ~last'.ret.search.found)]_vars

\* C10: search between two nodes, with no prevNode, returns the positions
\* in travel order: the first is the source's, the last the target's.
C10_SourceFirstTargetLast ==
  (/\ last.op = "search"
   /\ last.ret.search.found
   /\ last.args[1].node # NoId
   /\ last.args[1].prevNode = NoId
   /\ last.args[2].node # NoId)
    => /\ last.ret.search.positions[1].node = last.args[1].node
       /\ last.ret.search.positions[Len(last.ret.search.positions)].node = last.args[2].node

\* ------------------------------------------------------------ GraphSimple: state
\* GraphSimple keeps #byNode (here sNode) : node -> [conn, reserve] and
\* #byReserve (here sReserve) : reservation -> ReserveData.  conn is the
\* object keyed by the other node, in the order its keys were set; one entry
\* is [node, length, through] with length the length of the shared edge and
\* through the Set of nodes on the far side, in insertion order.  The ids
\* come from the same nextGlobalId counter as Graph's.
MaxBy == 2       \* grow and shrink by 1..MaxBy
MaxAsk == 1      \* answers the callback of one grow call has ready
MaxPath == 4     \* nodes in a reservation's node list
MaxSnakes == 2   \* reservations added
MaxSplits == 1   \* nodes split makes

Simple == [byNode |-> sNode, byReserve |-> sReserve, globalId |-> globalId]

EmptySimple == [byNode |-> EmptyMap, byReserve |-> EmptyMap, globalId |-> 0]

\* How a GraphSimple call ends.
SDone(S, ret) == [S |-> S, threw |-> FALSE, ret |-> ret]

SThrow(S) == [S |-> S, threw |-> TRUE, ret |-> NoId]

\* The index of key n in conn, 0 when n is no key (conn[n] === undefined).
RECURSIVE ConnIndexFrom(_, _, _)
ConnIndexFrom(conn, n, i) ==
  IF i > Len(conn) THEN 0
  ELSE IF conn[i].node = n THEN i
  ELSE ConnIndexFrom(conn, n, i + 1)

ConnIndex(conn, n) == ConnIndexFrom(conn, n, 1)

ConnEntry(node, length, through) == [node |-> node, length |-> length, through |-> through]

ReserveData(length, node, headOffset, tailOffset) ==
  [length |-> length, node |-> node, headOffset |-> headOffset, tailOffset |-> tailOffset]

SetNode(S, n, data) == [S EXCEPT !.byNode = Put(S.byNode, n, data)]

SetReserve(S, r, data) == [S EXCEPT !.byReserve = Put(S.byReserve, r, data)]

\* addNode(id); id = NoId stands for the default nextGlobalId('N').
addNode(S, id) ==
  LET T == IF id = NoId THEN [S EXCEPT !.globalId = @ + 1] ELSE S
      n == IF id = NoId THEN T.globalId ELSE id
  IN IF n \in DOMAIN T.byNode THEN SThrow(T)
     ELSE SDone(SetNode(T, n, [conn |-> <<>>, reserve |-> {}]), n)

\* connect(a, b, length).
connect(S, a, b, length) ==
  IF a = b THEN SThrow(S)
  ELSE IF a \notin DOMAIN S.byNode \/ b \notin DOMAIN S.byNode THEN SThrow(S)
  ELSE IF ConnIndex(S.byNode[a].conn, b) # 0 \/ ConnIndex(S.byNode[b].conn, a) # 0 THEN SThrow(S)
  ELSE LET S1 == SetNode(S, a, [S.byNode[a] EXCEPT !.conn = Append(@, ConnEntry(b, length, <<>>))])
       IN SDone(SetNode(S1, b, [S1.byNode[b] EXCEPT !.conn = Append(@, ConnEntry(a, length, <<>>))]),
                TRUE)

\* join(a, via, b) of GraphSimple.
simpleJoin(S, a, via, b) ==
  IF a = b \/ a = via \/ via = b THEN SThrow(S)
  ELSE IF via \notin DOMAIN S.byNode THEN SThrow(S)
  ELSE
  LET conn == S.byNode[via].conn
      ia == ConnIndex(conn, a)
      ib == ConnIndex(conn, b)
  IN IF ia = 0 \/ ib = 0 THEN SThrow(S)
     ELSE SDone(SetNode(S, via, [S.byNode[via] EXCEPT
                                   !.conn[ia].through = SetAdd(@, b),
                                   !.conn[ib].through = SetAdd(@, a)]),
                ~Has(conn[ia].through, b))

\* addReserve(node, id); id = NoId stands for the default nextGlobalId('R').
addReserve(S, node, id) ==
  LET T == IF id = NoId THEN [S EXCEPT !.globalId = @ + 1] ELSE S
      r == IF id = NoId THEN T.globalId ELSE id
  IN IF r \in DOMAIN T.byReserve THEN SThrow(T)
     ELSE IF node \notin DOMAIN T.byNode THEN SThrow(T)
     ELSE SDone(SetReserve(SetNode(T, node, [T.byNode[node] EXCEPT !.reserve = @ \cup {r}]),
                           r, ReserveData(0, <<node>>, 0, 0)),
                r)

\* ------------------------------------------------------------ GraphSimple: grow, shrink
\* The callback of grow is a list of answers ans: each time #growPart asks,
\* it gets the next one, and '' (NoId) once none is left, as from a grow
\* with no callback.

\* #growPart that puts the head at the far node of every edge it enters.
growPartEdgeEnd(S, r, end, by, ans) ==
  LET reserveData == S.byReserve[r]
      length == Len(reserveData.node)
      out(T, step, rest) == [S |-> T, threw |-> FALSE, step |-> step, ans |-> rest, told |-> <<>>]
  IN
  IF end = 1 /\ reserveData.headOffset # 0
  THEN LET grow == Min(reserveData.headOffset, by)
       IN out(SetReserve(S, r, [reserveData EXCEPT !.headOffset = @ - grow]), grow, ans)
  ELSE IF end = -1 /\ reserveData.tailOffset # 0
  THEN LET grow == Min(reserveData.tailOffset, by)
       IN out(SetReserve(S, r, [reserveData EXCEPT !.tailOffset = @ - grow]), grow, ans)
  ELSE IF length # 1 /\ end # 1 /\ end # -1
  THEN [S |-> S, threw |-> TRUE, step |-> 0, ans |-> ans, told |-> <<>>]   \* throw new Error('unknown')
  ELSE
  LET node == IF length = 1 \/ end = 1 THEN reserveData.node[1] ELSE reserveData.node[length]
      priorNode == IF length = 1 THEN NoId
                   ELSE IF end = 1 THEN reserveData.node[2]
                   ELSE reserveData.node[length - 1]
      conn == S.byNode[node].conn
      keys == [i \in 1..Len(conn) |-> conn[i].node]
      options == IF priorNode # NoId
                 THEN SelectSeq(keys, LAMBDA option :
                                  Has(conn[ConnIndex(conn, option)].through, priorNode))
                 ELSE keys
      asked == Len(options) > 1
      choice == IF asked THEN (IF Len(ans) > 0 THEN Head(ans) ELSE NoId)
                ELSE IF Len(options) > 0 THEN options[1] ELSE NoId
      rest == IF asked /\ Len(ans) > 0 THEN Tail(ans) ELSE ans
      index == ConnIndex(conn, choice)
      told == IF asked
              THEN <<[node |-> node, options |-> options, path |-> reserveData.node,
                      answer |-> choice]>>
              ELSE <<>>
  IN IF index = 0 THEN [out(S, 0, rest) EXCEPT !.told = told]
     ELSE LET grow == Min(by, conn[index].length)
          IN IF end = 1
             THEN [out(SetReserve(S, r, [reserveData EXCEPT
                                           !.node = <<choice>> \o @,
                                           !.headOffset = 0]),
                       grow, rest) EXCEPT !.told = told]
             ELSE [out(SetReserve(S, r, [reserveData EXCEPT
                                           !.node = Append(@, choice),
                                           !.tailOffset = conn[index].length - grow]),
                       grow, rest) EXCEPT !.told = told]

\* #growPart that takes every connection but the one it came by for an option.
growPartAnyWay(S, r, end, by, ans) ==
  LET reserveData == S.byReserve[r]
      length == Len(reserveData.node)
      out(T, step, rest) == [S |-> T, threw |-> FALSE, step |-> step, ans |-> rest, told |-> <<>>]
  IN
  IF end = 1 /\ reserveData.headOffset # 0
  THEN LET grow == Min(reserveData.headOffset, by)
       IN out(SetReserve(S, r, [reserveData EXCEPT !.headOffset = @ - grow]), grow, ans)
  ELSE IF end = -1 /\ reserveData.tailOffset # 0
  THEN LET grow == Min(reserveData.tailOffset, by)
       IN out(SetReserve(S, r, [reserveData EXCEPT !.tailOffset = @ - grow]), grow, ans)
  ELSE IF length # 1 /\ end # 1 /\ end # -1
  THEN [S |-> S, threw |-> TRUE, step |-> 0, ans |-> ans, told |-> <<>>]   \* throw new Error('unknown')
  ELSE
  LET node == IF length = 1 \/ end = 1 THEN reserveData.node[1] ELSE reserveData.node[length]
      priorNode == IF length = 1 THEN NoId
                   ELSE IF end = 1 THEN reserveData.node[2]
                   ELSE reserveData.node[length - 1]
      conn == S.byNode[node].conn
      keys == [i \in 1..Len(conn) |-> conn[i].node]
      options == IF priorNode # NoId
                 THEN SelectSeq(keys, LAMBDA option :
                                  option # priorNode)
                 ELSE keys
      asked == Len(options) > 1
      choice == IF asked THEN (IF Len(ans) > 0 THEN Head(ans) ELSE NoId)
                ELSE IF Len(options) > 0 THEN options[1] ELSE NoId
      rest == IF asked /\ Len(ans) > 0 THEN Tail(ans) ELSE ans
      index == ConnIndex(conn, choice)
      told == IF asked
              THEN <<[node |-> node, options |-> options, path |-> reserveData.node,
                      answer |-> choice]>>
              ELSE <<>>
  IN IF index = 0 THEN [out(S, 0, rest) EXCEPT !.told = told]
     ELSE LET grow == Min(by, conn[index].length)
          IN IF end = 1
             THEN [out(SetReserve(S, r, [reserveData EXCEPT
                                           !.node = <<choice>> \o @,
                                           !.headOffset = conn[index].length - grow]),
                       grow, rest) EXCEPT !.told = told]
             ELSE [out(SetReserve(S, r, [reserveData EXCEPT
                                           !.node = Append(@, choice),
                                           !.tailOffset = conn[index].length - grow]),
                       grow, rest) EXCEPT !.told = told]

\* #growPart that calls the callback only for three options or more.
growPartAskTwo(S, r, end, by, ans) ==
  LET reserveData == S.byReserve[r]
      length == Len(reserveData.node)
      out(T, step, rest) == [S |-> T, threw |-> FALSE, step |-> step, ans |-> rest, told |-> <<>>]
  IN
  IF end = 1 /\ reserveData.headOffset # 0
  THEN LET grow == Min(reserveData.headOffset, by)
       IN out(SetReserve(S, r, [reserveData EXCEPT !.headOffset = @ - grow]), grow, ans)
  ELSE IF end = -1 /\ reserveData.tailOffset # 0
  THEN LET grow == Min(reserveData.tailOffset, by)
       IN out(SetReserve(S, r, [reserveData EXCEPT !.tailOffset = @ - grow]), grow, ans)
  ELSE IF length # 1 /\ end # 1 /\ end # -1
  THEN [S |-> S, threw |-> TRUE, step |-> 0, ans |-> ans, told |-> <<>>]   \* throw new Error('unknown')
  ELSE
  LET node == IF length = 1 \/ end = 1 THEN reserveData.node[1] ELSE reserveData.node[length]
      priorNode == IF length = 1 THEN NoId
                   ELSE IF end = 1 THEN reserveData.node[2]
                   ELSE reserveData.node[length - 1]
      conn == S.byNode[node].conn
      keys == [i \in 1..Len(conn) |-> conn[i].node]
      options == IF priorNode # NoId
                 THEN SelectSeq(keys, LAMBDA option :
                                  Has(conn[ConnIndex(conn, option)].through, priorNode))
                 ELSE keys
      asked == Len(options) > 2
      choice == IF asked THEN (IF Len(ans) > 0 THEN Head(ans) ELSE NoId)
                ELSE IF Len(options) > 0 THEN options[1] ELSE NoId
      rest == IF asked /\ Len(ans) > 0 THEN Tail(ans) ELSE ans
      index == ConnIndex(conn, choice)
      told == IF asked
              THEN <<[node |-> node, options |-> options, path |-> reserveData.node,
                      answer |-> choice]>>
              ELSE <<>>
  IN IF index = 0 THEN [out(S, 0, rest) EXCEPT !.told = told]
     ELSE LET grow == Min(by, conn[index].length)
          IN IF end = 1
             THEN [out(SetReserve(S, r, [reserveData EXCEPT
                                           !.node = <<choice>> \o @,
                                           !.headOffset = conn[index].length - grow]),
                       grow, rest) EXCEPT !.told = told]
             ELSE [out(SetReserve(S, r, [reserveData EXCEPT
                                           !.node = Append(@, choice),
                                           !.tailOffset = conn[index].length - grow]),
                       grow, rest) EXCEPT !.told = told]

\* #growPart(r, end, by, callback), for a reservation of the graph:
\* [S, threw, step, ans, told] with ans the answers not yet used and told
\* what the callback was called with, if it was: the node, the options, the
\* node list it finds in the reservation at that moment, and its answer.
growPart(S, r, end, by, ans) ==
  LET reserveData == S.byReserve[r]
      length == Len(reserveData.node)
      out(T, step, rest) == [S |-> T, threw |-> FALSE, step |-> step, ans |-> rest, told |-> <<>>]
  IN
  IF end = 1 /\ reserveData.headOffset # 0
  THEN LET grow == Min(reserveData.headOffset, by)
       IN out(SetReserve(S, r, [reserveData EXCEPT !.headOffset = @ - grow]), grow, ans)
  ELSE IF end = -1 /\ reserveData.tailOffset # 0
  THEN LET grow == Min(reserveData.tailOffset, by)
       IN out(SetReserve(S, r, [reserveData EXCEPT !.tailOffset = @ - grow]), grow, ans)
  ELSE IF length # 1 /\ end # 1 /\ end # -1
  THEN [S |-> S, threw |-> TRUE, step |-> 0, ans |-> ans, told |-> <<>>]   \* throw new Error('unknown')
  ELSE
  LET node == IF length = 1 \/ end = 1 THEN reserveData.node[1] ELSE reserveData.node[length]
      priorNode == IF length = 1 THEN NoId
                   ELSE IF end = 1 THEN reserveData.node[2]
                   ELSE reserveData.node[length - 1]
      conn == S.byNode[node].conn
      keys == [i \in 1..Len(conn) |-> conn[i].node]
      options == IF priorNode # NoId
                 THEN SelectSeq(keys, LAMBDA option :
                                  Has(conn[ConnIndex(conn, option)].through, priorNode))
                 ELSE keys
      asked == Len(options) > 1
      choice == IF asked THEN (IF Len(ans) > 0 THEN Head(ans) ELSE NoId)
                ELSE IF Len(options) > 0 THEN options[1] ELSE NoId
      rest == IF asked /\ Len(ans) > 0 THEN Tail(ans) ELSE ans
      index == ConnIndex(conn, choice)
      told == IF asked
              THEN <<[node |-> node, options |-> options, path |-> reserveData.node,
                      answer |-> choice]>>
              ELSE <<>>
  IN IF index = 0 THEN [out(S, 0, rest) EXCEPT !.told = told]
     ELSE LET grow == Min(by, conn[index].length)
          IN IF end = 1
             THEN [out(SetReserve(S, r, [reserveData EXCEPT
                                           !.node = <<choice>> \o @,
                                           !.headOffset = conn[index].length - grow]),
                       grow, rest) EXCEPT !.told = told]
             ELSE [out(SetReserve(S, r, [reserveData EXCEPT
                                           !.node = Append(@, choice),
                                           !.tailOffset = conn[index].length - grow]),
                       grow, rest) EXCEPT !.told = told]

\* The while (by > 0) loop of grow: [S, threw, by, told] when it ends, told
\* being the calls of the callback in their order.
RECURSIVE growLoop(_, _, _, _, _)
growLoop(S, r, end, by, ans) ==
  IF by <= 0 THEN [S |-> S, threw |-> FALSE, by |-> by, told |-> <<>>]
  ELSE The({
    IF part.threw THEN [S |-> part.S, threw |-> TRUE, by |-> by, told |-> part.told]
    ELSE IF part.step = 0 THEN [S |-> part.S, threw |-> FALSE, by |-> by, told |-> part.told]
    ELSE LET reserveData == part.S.byReserve[r]
             frontNode == IF end = 1 /\ reserveData.headOffset = 0 THEN reserveData.node[1]
                          ELSE IF end = -1 /\ reserveData.tailOffset = 0
                          THEN reserveData.node[Len(reserveData.node)]
                          ELSE NoId
             T == IF frontNode = NoId THEN part.S
                  ELSE SetNode(part.S, frontNode,
                               [part.S.byNode[frontNode] EXCEPT !.reserve = @ \cup {r}])
         IN The({[rest EXCEPT !.told = part.told \o @]
                 : rest \in {growLoop(T, r, end, by - part.step, part.ans)}})
    : part \in {growPart(S, r, end, by, ans)}})

\* grow(r, end, by, callback).
grow(S, r, end, by, ans) ==
  IF by < 0 \/ Sign(end) # end THEN SThrow(S)
  ELSE IF r \notin DOMAIN S.byReserve THEN SThrow(S)
  ELSE The({
    LET growth == by - loop.by
    IN IF loop.threw THEN SThrow(loop.S)
       ELSE IF growth = 0 THEN SDone(loop.S, 0)
       ELSE SDone(SetReserve(loop.S, r, [loop.S.byReserve[r] EXCEPT !.length = @ + growth]), growth)
    : loop \in {growLoop(S, r, end, by, ans)}})

\* What the callback of grow(r, end, by, callback) is called with, call by
\* call.
growTold(S, r, end, by, ans) ==
  IF by < 0 \/ Sign(end) # end THEN <<>>
  ELSE IF r \notin DOMAIN S.byReserve THEN <<>>
  ELSE growLoop(S, r, end, by, ans).told

\* #shrinkPart that drops the node of an edge it used up but leaves the
\* offset of that end at the length of the edge.
shrinkPartKeepOffset(S, r, end, by) ==
  LET reserveData == S.byReserve[r]
      length == Len(reserveData.node)
      out(T, step) == [S |-> T, threw |-> FALSE, step |-> step]
      fail == [S |-> S, threw |-> TRUE, step |-> 0]
  IN
  IF length = 1 THEN fail
  ELSE IF end # 1 /\ end # -1 THEN fail
  ELSE
  LET front == IF end = 1 THEN reserveData.node[1] ELSE reserveData.node[length]
      prior == IF end = 1 THEN reserveData.node[2] ELSE reserveData.node[length - 1]
  IN IF front \notin DOMAIN S.byNode THEN fail
     ELSE
     LET conn == S.byNode[front].conn
         index == ConnIndex(conn, prior)
     IN IF index = 0 THEN fail
        ELSE
        LET edgeLength == conn[index].length
        IN IF end = 1
           THEN LET priorOffset == IF length = 2 THEN reserveData.tailOffset ELSE 0
                    edgeUse == edgeLength - (reserveData.headOffset + priorOffset)
                    shrink == Min(edgeUse, by)
                    headOffset == reserveData.headOffset + shrink
                IN IF headOffset = edgeLength
                   THEN out(SetReserve(S, r, [reserveData EXCEPT !.node = Tail(@), !.headOffset = headOffset]),
                            shrink)
                   ELSE out(SetReserve(S, r, [reserveData EXCEPT !.headOffset = headOffset]), shrink)
           ELSE LET priorOffset == IF length = 2 THEN reserveData.headOffset ELSE 0
                    edgeUse == edgeLength - (reserveData.tailOffset + priorOffset)
                    shrink == Min(edgeUse, by)
                    tailOffset == reserveData.tailOffset + shrink
                IN IF tailOffset = edgeLength
                   THEN out(SetReserve(S, r, [reserveData EXCEPT
                                                !.node = SubSeq(@, 1, Len(@) - 1),
                                                !.tailOffset = tailOffset]),
                            shrink)
                   ELSE out(SetReserve(S, r, [reserveData EXCEPT !.tailOffset = tailOffset]), shrink)

\* #shrinkPart that drops the head node as soon as the head meets the tail.
shrinkPartDropEdge(S, r, end, by) ==
  LET reserveData == S.byReserve[r]
      length == Len(reserveData.node)
      out(T, step) == [S |-> T, threw |-> FALSE, step |-> step]
      fail == [S |-> S, threw |-> TRUE, step |-> 0]
  IN
  IF length = 1 THEN fail
  ELSE IF end # 1 /\ end # -1 THEN fail
  ELSE
  LET front == IF end = 1 THEN reserveData.node[1] ELSE reserveData.node[length]
      prior == IF end = 1 THEN reserveData.node[2] ELSE reserveData.node[length - 1]
  IN IF front \notin DOMAIN S.byNode THEN fail
     ELSE
     LET conn == S.byNode[front].conn
         index == ConnIndex(conn, prior)
     IN IF index = 0 THEN fail
        ELSE
        LET edgeLength == conn[index].length
        IN IF end = 1
           THEN LET priorOffset == IF length = 2 THEN reserveData.tailOffset ELSE 0
                    edgeUse == edgeLength - (reserveData.headOffset + priorOffset)
                    shrink == Min(edgeUse, by)
                    headOffset == reserveData.headOffset + shrink
                IN IF headOffset = edgeLength - priorOffset
                   THEN out(SetReserve(S, r, [reserveData EXCEPT !.node = Tail(@), !.headOffset = 0]),
                            shrink)
                   ELSE out(SetReserve(S, r, [reserveData EXCEPT !.headOffset = headOffset]), shrink)
           ELSE LET priorOffset == IF length = 2 THEN reserveData.headOffset ELSE 0
                    edgeUse == edgeLength - (reserveData.tailOffset + priorOffset)
                    shrink == Min(edgeUse, by)
                    tailOffset == reserveData.tailOffset + shrink
                IN IF tailOffset = edgeLength
                   THEN out(SetReserve(S, r, [reserveData EXCEPT
                                                !.node = SubSeq(@, 1, Len(@) - 1), !.tailOffset = 0]),
                            shrink)
                   ELSE out(SetReserve(S, r, [reserveData EXCEPT !.tailOffset = tailOffset]), shrink)

\* #shrinkPart(r, end, by), for a reservation of the graph: [S, threw, step].
\* this.#byNode.get(front)?.conn[prior].edge throws when front is a node
\* without a connection to prior, and gives undefined (then the Error of
\* 455-457) when front is no node.
shrinkPart(S, r, end, by) ==
  LET reserveData == S.byReserve[r]
      length == Len(reserveData.node)
      out(T, step) == [S |-> T, threw |-> FALSE, step |-> step]
      fail == [S |-> S, threw |-> TRUE, step |-> 0]
  IN
  IF length = 1 THEN fail
  ELSE IF end # 1 /\ end # -1 THEN fail
  ELSE
  LET front == IF end = 1 THEN reserveData.node[1] ELSE reserveData.node[length]
      prior == IF end = 1 THEN reserveData.node[2] ELSE reserveData.node[length - 1]
  IN IF front \notin DOMAIN S.byNode THEN fail
     ELSE
     LET conn == S.byNode[front].conn
         index == ConnIndex(conn, prior)
     IN IF index = 0 THEN fail
        ELSE
        LET edgeLength == conn[index].length
        IN IF end = 1
           THEN LET priorOffset == IF length = 2 THEN reserveData.tailOffset ELSE 0
                    edgeUse == edgeLength - (reserveData.headOffset + priorOffset)
                    shrink == Min(edgeUse, by)
                    headOffset == reserveData.headOffset + shrink
                IN IF headOffset = edgeLength
                   THEN out(SetReserve(S, r, [reserveData EXCEPT !.node = Tail(@), !.headOffset = 0]),
                            shrink)
                   ELSE out(SetReserve(S, r, [reserveData EXCEPT !.headOffset = headOffset]), shrink)
           ELSE LET priorOffset == IF length = 2 THEN reserveData.headOffset ELSE 0
                    edgeUse == edgeLength - (reserveData.tailOffset + priorOffset)
                    shrink == Min(edgeUse, by)
                    tailOffset == reserveData.tailOffset + shrink
                IN IF tailOffset = edgeLength
                   THEN out(SetReserve(S, r, [reserveData EXCEPT
                                                !.node = SubSeq(@, 1, Len(@) - 1), !.tailOffset = 0]),
                            shrink)
                   ELSE out(SetReserve(S, r, [reserveData EXCEPT !.tailOffset = tailOffset]), shrink)

\* The node shrink takes the reservation off before a step: the end node
\* when the end sits on it, unless the node list names it again three or
\* more places further on (shrink 522-542); NoId for none.
shrinkFrontNode(reserveData, end) ==
  LET length == Len(reserveData.node)
  IN IF end = 1 /\ reserveData.headOffset = 0
     THEN IF \E i \in 4..length : reserveData.node[i] = reserveData.node[1]
          THEN NoId ELSE reserveData.node[1]
     ELSE IF end = -1 /\ reserveData.tailOffset = 0
     THEN IF \E i \in 1..(length - 3) : reserveData.node[i] = reserveData.node[length]
          THEN NoId ELSE reserveData.node[length]
     ELSE NoId

\* The while (by > 0) loop of shrink: [S, threw].
RECURSIVE shrinkLoop(_, _, _, _)
shrinkLoop(S, r, end, by) ==
  IF by <= 0 THEN [S |-> S, threw |-> FALSE]
  ELSE The({
    IF frontNode # NoId /\ frontNode \notin DOMAIN S.byNode THEN [S |-> S, threw |-> TRUE]
    ELSE The({
      IF part.threw \/ part.step = 0 THEN [S |-> part.S, threw |-> TRUE]
      ELSE shrinkLoop(part.S, r, end, by - part.step)
      : part \in {shrinkPart(IF frontNode = NoId THEN S
                             ELSE SetNode(S, frontNode,
                                          [S.byNode[frontNode] EXCEPT !.reserve = @ \ {r}]),
                             r, end, by)}})
    : frontNode \in {shrinkFrontNode(S.byReserve[r], end)}})

\* shrink that returns what it was asked for.
shrinkAsAsked(S, r, end, by) ==
  IF by < 0 \/ Sign(end) # end THEN SThrow(S)
  ELSE IF r \notin DOMAIN S.byReserve THEN SThrow(S)
  ELSE
  LET total == Min(S.byReserve[r].length, by)
  IN IF total = 0 THEN SDone(S, 0)
     ELSE The({
       IF loop.threw THEN SThrow(loop.S)
       ELSE SDone(SetReserve(loop.S, r, [loop.S.byReserve[r] EXCEPT !.length = @ - total]), by)
       : loop \in {shrinkLoop(S, r, end, total)}})

\* shrink(r, end, by).
shrink(S, r, end, by) ==
  IF by < 0 \/ Sign(end) # end THEN SThrow(S)
  ELSE IF r \notin DOMAIN S.byReserve THEN SThrow(S)
  ELSE
  LET total == Min(S.byReserve[r].length, by)
  IN IF total = 0 THEN SDone(S, 0)
     ELSE The({
       IF loop.threw THEN SThrow(loop.S)
       ELSE SDone(SetReserve(loop.S, r, [loop.S.byReserve[r] EXCEPT !.length = @ - total]), total)
       : loop \in {shrinkLoop(S, r, end, total)}})

\* ------------------------------------------------------------ GraphSimple: split
\* splitConn that leaves the through Sets of the other entries as they are.
splitConnStale(conn, other, via, length) ==
  LET index == ConnIndex(conn, other)
      kept == RemoveAt(conn, index)
      moved == [i \in 1..Len(kept) |->
                  IF Has(kept[i].through, via)
                  THEN [kept[i] EXCEPT !.through =
                          Append(SelectSeq(@, LAMBDA x : x # other), via)]
                  ELSE kept[i]]
  IN Append(moved, ConnEntry(via, length, conn[index].through))

\* The conn of an end node of the split edge after the split: the entry to
\* the other end gone, every other entry that went through to the other
\* end now going through to via, and a new last entry to via that keeps the
\* through Set of the entry that went.
splitConn(conn, other, via, length) ==
  LET index == ConnIndex(conn, other)
      kept == RemoveAt(conn, index)
      moved == [i \in 1..Len(kept) |->
                  IF Has(kept[i].through, other)
                  THEN [kept[i] EXCEPT !.through =
                          Append(SelectSeq(@, LAMBDA x : x # other), via)]
                  ELSE kept[i]]
  IN Append(moved, ConnEntry(via, length, conn[index].through))

\* setConn that stores the entry with an empty through Set.
setConnBare(conn, entry) ==
  LET index == ConnIndex(conn, entry.node)
  IN IF index = 0 THEN Append(conn, [entry EXCEPT !.through = <<>>]) ELSE [conn EXCEPT ![index] = entry]

\* conn[key] = entry: in place when key is there, else a new last key.
setConn(conn, entry) ==
  LET index == ConnIndex(conn, entry.node)
  IN IF index = 0 THEN Append(conn, entry) ELSE [conn EXCEPT ![index] = entry]

\* split that also cuts at the far end of the edge.
splitAtEnd(S, a, via, b, along) ==
  IF along = 0 THEN SThrow(S)
  ELSE IF a = b \/ a = via \/ via = b THEN SThrow(S)
  ELSE The({
    LET T == added.S
        v == added.ret
    IN
    IF added.threw THEN SThrow(T)
    ELSE IF a \notin DOMAIN T.byNode \/ b \notin DOMAIN T.byNode \/ v \notin DOMAIN T.byNode
    THEN SThrow(T)
    ELSE
    LET dataA == T.byNode[a]
        dataB == T.byNode[b]
        indexA == ConnIndex(dataA.conn, b)
        indexB == ConnIndex(dataB.conn, a)
    IN IF ConnIndex(dataA.conn, v) # 0 \/ ConnIndex(dataB.conn, v) # 0 THEN SThrow(T)
       ELSE IF indexA = 0 \/ indexB = 0 THEN SThrow(T)
       ELSE
       LET length == dataA.conn[indexA].length
           at == IF along < 0 THEN length - along ELSE along
       IN IF at > length \/ at <= 0 THEN SThrow(T)
          ELSE
          LET T1 == SetNode(T, a, [dataA EXCEPT !.conn = splitConn(@, b, v, at)])
              T2 == SetNode(T1, b, [dataB EXCEPT !.conn = splitConn(@, a, v, length - at)])
              dataVia == T2.byNode[v]
          IN SDone(SetNode(T2, v, [dataVia EXCEPT !.conn =
                                     setConn(setConn(@, ConnEntry(a, at, <<b>>)),
                                             ConnEntry(b, length - at, <<a>>))]),
                   v)
    : added \in {IF via = NoId THEN addNode(S, NoId) ELSE SDone(S, via)}})

\* split(a, via, b, along), along an integer; via = NoId stands for ''.
\* The two conn entries of an edge hold one edge object, so the check of
\* 179-182 never throws.  No reservation is touched (the TODO of 156).
split(S, a, via, b, along) ==
  IF along = 0 THEN SThrow(S)
  ELSE IF a = b \/ a = via \/ via = b THEN SThrow(S)
  ELSE The({
    LET T == added.S
        v == added.ret
    IN
    IF added.threw THEN SThrow(T)
    ELSE IF a \notin DOMAIN T.byNode \/ b \notin DOMAIN T.byNode \/ v \notin DOMAIN T.byNode
    THEN SThrow(T)
    ELSE
    LET dataA == T.byNode[a]
        dataB == T.byNode[b]
        indexA == ConnIndex(dataA.conn, b)
        indexB == ConnIndex(dataB.conn, a)
    IN IF ConnIndex(dataA.conn, v) # 0 \/ ConnIndex(dataB.conn, v) # 0 THEN SThrow(T)
       ELSE IF indexA = 0 \/ indexB = 0 THEN SThrow(T)
       ELSE
       LET length == dataA.conn[indexA].length
           at == IF along < 0 THEN length - along ELSE along
       IN IF at >= length \/ at <= 0 THEN SThrow(T)
          ELSE
          LET T1 == SetNode(T, a, [dataA EXCEPT !.conn = splitConn(@, b, v, at)])
              T2 == SetNode(T1, b, [dataB EXCEPT !.conn = splitConn(@, a, v, length - at)])
              dataVia == T2.byNode[v]
          IN SDone(SetNode(T2, v, [dataVia EXCEPT !.conn =
                                     setConn(setConn(@, ConnEntry(a, at, <<b>>)),
                                             ConnEntry(b, length - at, <<a>>))]),
                   v)
    : added \in {IF via = NoId THEN addNode(S, NoId) ELSE SDone(S, via)}})

\* ------------------------------------------------------------ GraphSimple: calls
GraphIdle == byNode = EmptyMap /\ byEdge = EmptyMap /\ RestIdle

SetSimple(S) ==
  /\ sNode' = S.byNode
  /\ sReserve' = S.byReserve
  /\ globalId' = S.globalId
  /\ UNCHANGED <<byNode, byEdge, arrays, heights, game, man>>

\* The answers a callback may give: any node, or nothing.
Answers ==
  UNION {[1..n -> (DOMAIN sNode) \cup {NoId}] : n \in 0..MaxAsk}

AddReserve ==
  /\ last.op = "none"
  /\ Cardinality(DOMAIN sReserve) < MaxSnakes
  /\ \E node \in DOMAIN sNode :
     \E r \in {addReserve(Simple, node, NoId)} :
       /\ SetSimple(r.S)
       /\ last' = Call("addReserve", r.threw, <<node>>, r.ret)

Grow ==
  /\ last.op = "none"
  /\ \E id \in DOMAIN sReserve, end \in {-1, 1}, by \in 1..MaxBy, ans \in Answers :
     \E r \in {grow(Simple, id, end, by, ans)} :
       /\ Len(r.S.byReserve[id].node) <= MaxPath
       /\ SetSimple(r.S)
       /\ last' = Call("grow", r.threw, <<id, end, by>>, r.ret)

Shrink ==
  /\ last.op = "none"
  /\ \E id \in DOMAIN sReserve, end \in {-1, 1}, by \in 1..MaxBy :
     \E r \in {shrink(Simple, id, end, by)} :
       /\ SetSimple(r.S)
       /\ last' = Call("shrink", r.threw, <<id, end, by>>, r.ret)

\* The graph SpecSnake keeps fixed, made by the calls themselves: nodes 1,
\* 2, 3, connected two by two by edges of length MaxLen, and joined through
\* at every corner.
TriangleSimple ==
  The({The({The({The({The({The({The({The({simpleJoin(s8, 1, 3, 2).S
    : s8 \in {simpleJoin(s7, 1, 2, 3).S}})
    : s7 \in {simpleJoin(s6, 2, 1, 3).S}})
    : s6 \in {connect(s5, 3, 1, MaxLen).S}})
    : s5 \in {connect(s4, 2, 3, MaxLen).S}})
    : s4 \in {connect(s3, 1, 2, MaxLen).S}})
    : s3 \in {addNode(s2, NoId).S}})
    : s2 \in {addNode(s1, NoId).S}})
    : s1 \in {addNode(EmptySimple, NoId).S}})

InitSnake ==
  /\ GraphIdle
  /\ sNode = TriangleSimple.byNode
  /\ sReserve = TriangleSimple.byReserve
  /\ globalId = TriangleSimple.globalId
  /\ last = NoCall

NextSnake == AddReserve \/ Grow \/ Shrink \/ Return

SpecSnake == InitSnake /\ [][NextSnake]_vars

\* ------------------------------------------------------------ GraphSimple: split under reservations
LineLen == MaxLen + 1

\* The graph SpecSplit starts from: nodes 1 and 2 and one edge between them.
LineSimple ==
  The({The({connect(s2, 1, 2, LineLen).S
    : s2 \in {addNode(s1, NoId).S}})
    : s1 \in {addNode(EmptySimple, NoId).S}})

InitSplit ==
  /\ GraphIdle
  /\ sNode = LineSimple.byNode
  /\ sReserve = LineSimple.byReserve
  /\ globalId = LineSimple.globalId
  /\ last = NoCall

\* split(a, '', b, along): the middle node is a new one.
Split ==
  /\ last.op = "none"
  /\ \E a \in DOMAIN sNode, b \in DOMAIN sNode, along \in 1..(LineLen - 1) :
     \E r \in {split(Simple, a, NoId, b, along)} :
       /\ Cardinality(DOMAIN r.S.byNode) <= Cardinality(DOMAIN LineSimple.byNode) + MaxSplits
       /\ SetSimple(r.S)
       /\ last' = Call("split", r.threw, <<a, NoId, b, along>>, r.ret)

NextSplit == AddReserve \/ Grow \/ Shrink \/ Split \/ Return

SpecSplit == InitSplit /\ [][NextSplit]_vars

\* ------------------------------------------------------------ join, of Graph and of GraphSimple
\* The GraphSimple SpecJoin starts from, made by three addNode calls: nodes
\* 1, 2 and 3, not connected.
ThreeNodes ==
  The({The({addNode(s2, NoId).S
    : s2 \in {addNode(s1, NoId).S}})
    : s1 \in {addNode(EmptySimple, NoId).S}})

InitNodes ==
  /\ GraphIdle
  /\ sNode = ThreeNodes.byNode
  /\ sReserve = ThreeNodes.byReserve
  /\ globalId = ThreeNodes.globalId
  /\ last = NoCall

\* connect(a, b, length), the length any number the caller likes.
Connect ==
  /\ last.op = "none"
  /\ \E a \in DOMAIN sNode, b \in DOMAIN sNode, length \in {0, 1, MaxLen} :
     \E r \in {connect(Simple, a, b, length)} :
       /\ SetSimple(r.S)
       /\ last' = Call("connect", r.threw, <<a, b, length>>, r.ret)

\* join(a, via, b) of GraphSimple.
SimpleJoin ==
  /\ last.op = "none"
  /\ \E a \in DOMAIN sNode, via \in DOMAIN sNode, b \in DOMAIN sNode :
     \E r \in {simpleJoin(Simple, a, via, b)} :
       /\ SetSimple(r.S)
       /\ last' = Call("simpleJoin", r.threw, <<a, via, b>>, r.ret)

\* split(a, via, b, along) with via a node of the graph.
SplitVia ==
  /\ last.op = "none"
  /\ \E a \in DOMAIN sNode, via \in DOMAIN sNode, b \in DOMAIN sNode, along \in 1..MaxLen :
     \E r \in {split(Simple, a, via, b, along)} :
       /\ SetSimple(r.S)
       /\ last' = Call("split", r.threw, <<a, via, b, along>>, r.ret)

\* SpecJoin has two programs: one holds a Graph, the triangle of
\* SpecSearch, and joins at its nodes; the other holds a GraphSimple of
\* three nodes and calls connect, join and split on them.
InitJoin == InitSearch \/ InitNodes

NextJoin == Join \/ Connect \/ SimpleJoin \/ SplitVia \/ Return

SpecJoin == InitJoin /\ [][NextJoin]_vars

\* ------------------------------------------------------------ GraphSimple: claims
\* u and v are connected: each is a key of the other's conn.
Connected(u, v) ==
  /\ u \in DOMAIN sNode /\ v \in DOMAIN sNode
  /\ ConnIndex(sNode[u].conn, v) # 0
  /\ ConnIndex(sNode[v].conn, u) # 0

EdgeLength(u, v) == sNode[u].conn[ConnIndex(sNode[u].conn, v)].length

\* The unit pieces of edges a reservation covers, worked out from its node
\* list and offsets: <<u, v, k>> is the piece from k to k + 1 of the edge
\* between u < v, measured from u.
SegmentCells(reserveData, i) ==
  LET u == reserveData.node[i]
      v == reserveData.node[i + 1]
      length == EdgeLength(u, v)
      low == IF i = 1 THEN reserveData.headOffset ELSE 0
      high == length - (IF i = Len(reserveData.node) - 1 THEN reserveData.tailOffset ELSE 0)
  IN {IF u < v THEN <<u, v, k>> ELSE <<v, u, length - 1 - k>> : k \in low..(high - 1)}

Cells(reserveData) ==
  UNION {SegmentCells(reserveData, i) : i \in 1..(Len(reserveData.node) - 1)}

\* The nodes the region of a reservation includes: every node of its node
\* list but an end node the end has an offset from.
Covers(reserveData, v) ==
  \E i \in 1..Len(reserveData.node) :
    /\ reserveData.node[i] = v
    /\ \/ Len(reserveData.node) = 1
       \/ 1 < i /\ i < Len(reserveData.node)
       \/ i = 1 /\ reserveData.headOffset = 0
       \/ i = Len(reserveData.node) /\ reserveData.tailOffset = 0

RECURSIVE PathLength(_)
PathLength(node) ==
  IF Len(node) <= 1 THEN 0
  ELSE EdgeLength(node[1], node[2]) + PathLength(Tail(node))

\* C2: no two reservations cover the same piece of an edge.
C2_SnakesNeverOverlap ==
  \A r \in DOMAIN sReserve, q \in DOMAIN sReserve :
    r # q => Cells(sReserve[r]) \cap Cells(sReserve[q]) = {}

\* C3: a node's reserve set holds r exactly when the region of r, worked
\* out from its node list and offsets, includes the node.
C3_ReserveSetIsRegion ==
  \A v \in DOMAIN sNode, r \in DOMAIN sReserve :
    r \in sNode[v].reserve <=> Covers(sReserve[r], v)

\* C4: every reservation has length >= 0 and offsets >= 0, and its length
\* is the sum of the lengths of the edges along its node list less the two
\* offsets; on one node it has length 0 and offsets 0.
C4_LengthIsPathLessOffsets ==
  \A r \in DOMAIN sReserve :
    LET reserveData == sReserve[r] IN
    /\ reserveData.length >= 0
    /\ reserveData.headOffset >= 0
    /\ reserveData.tailOffset >= 0
    /\ reserveData.length
         = PathLength(reserveData.node) - reserveData.headOffset - reserveData.tailOffset
    /\ Len(reserveData.node) = 1
         => reserveData.length = 0 /\ reserveData.headOffset = 0 /\ reserveData.tailOffset = 0

\* A shrink has left a reservation over three nodes or more with both ends
\* part of the way along their edges.
C4_Witness ==
  /\ last.op = "shrink"
  /\ ~last.threw
  /\ last.ret.shrink > 0
  /\ \E r \in DOMAIN sReserve :
       /\ r = last.args[1]
       /\ Len(sReserve[r].node) >= 3
       /\ sReserve[r].headOffset > 0
       /\ sReserve[r].tailOffset > 0

\* C5: with splits, every reservation still runs along connected nodes of
\* the graph (it passes through the middle node of a split of an edge it
\* covers), and no grow or shrink throws.
C5_SplitKeepsSnakes ==
  /\ \A r \in DOMAIN sReserve :
       \A i \in 1..(Len(sReserve[r].node) - 1) :
         Connected(sReserve[r].node[i], sReserve[r].node[i + 1])
  /\ last.op \in {"grow", "shrink"} => ~last.threw

\* ------------------------------------------------------------ join: claims
\* The side of via that x lies on: the edge the two are on and the
\* direction from via to x along it.
SideTowards(via, x) ==
  LET e == CHOOSE f \in EdgesAt(via) \cap EdgesAt(x) : TRUE
      data == byEdge[e]
  IN [edge |-> e,
      dir |-> Sign(data.virt[IndexOf(data.node, x)] - data.virt[IndexOf(data.node, via)])]

\* via has a pair that joins the side of a and the side of b.
RouteAt(a, via, b) ==
  \E i \in 1..Len(byNode[via].pairs) :
    {byNode[via].pairs[i][1], byNode[via].pairs[i][2]} = {SideTowards(via, a), SideTowards(via, b)}

\* via lets a through to b, or b through to a.
ThroughAt(a, via, b) ==
  LET conn == sNode[via].conn
  IN \/ Has(conn[ConnIndex(conn, a)].through, b)
     \/ Has(conn[ConnIndex(conn, b)].through, a)

\* The Graph and the GraphSimple after the step.
GraphAfter == [byNode |-> byNode', byEdge |-> byEdge', globalId |-> globalId']

SimpleAfter == [byNode |-> sNode', byReserve |-> sReserve', globalId |-> globalId']

\* C19, for Graph.join: a join that returns true finds no pair at via for
\* the two sides and adds exactly one; one that returns false changes
\* nothing; and after either, the same call and the call with a and b
\* swapped return false and change nothing.
C19_GraphJoin ==
  (last'.op = "join" /\ ~last'.threw)
    => LET a == last'.args[1]
           via == last'.args[2]
           b == last'.args[3]
           added == last'.ret.join
       IN /\ added <=> ~RouteAt(a, via, b)
          /\ byEdge' = byEdge
          /\ byNode' = [byNode EXCEPT ![via].pairs = byNode'[via].pairs]
          /\ IF added
             THEN /\ Len(byNode'[via].pairs) = Len(byNode[via].pairs) + 1
                  /\ SubSeq(byNode'[via].pairs, 1, Len(byNode[via].pairs)) = byNode[via].pairs
             ELSE byNode'[via].pairs = byNode[via].pairs
          /\ \A again \in {join(GraphAfter, a, via, b), join(GraphAfter, b, via, a)} :
               ~again.threw /\ again.ret = FALSE /\ again.G = GraphAfter

\* C19, for GraphSimple.join: the same, the route being b in the through
\* set of via's connection to a and a in that of its connection to b.
C19_SimpleJoin ==
  (last'.op = "simpleJoin" /\ ~last'.threw)
    => LET a == last'.args[1]
           via == last'.args[2]
           b == last'.args[3]
           added == last'.ret.simpleJoin
           conn == sNode[via].conn
           ia == ConnIndex(conn, a)
           ib == ConnIndex(conn, b)
       IN /\ added <=> ~ThroughAt(a, via, b)
          /\ sReserve' = sReserve
          /\ IF added
             THEN sNode' = [sNode EXCEPT ![via].conn[ia].through = Append(@, b),
                                         ![via].conn[ib].through = Append(@, a)]
             ELSE sNode' = sNode
          /\ \A again \in {simpleJoin(SimpleAfter, a, via, b), simpleJoin(SimpleAfter, b, via, a)} :
               ~again.threw /\ again.ret = FALSE /\ again.S = SimpleAfter

\* C19, for connect: a connect that succeeds adds one connection with an
\* empty through set at each of the two nodes and leaves every other
\* connection and through set as it was.
C19_ConnectAlone ==
  (last'.op = "connect" /\ ~last'.threw)
    => LET a == last'.args[1]
           b == last'.args[2]
       IN sNode' = [sNode EXCEPT
                      ![a].conn = Append(@, ConnEntry(b, last'.args[3], <<>>)),
                      ![b].conn = Append(@, ConnEntry(a, last'.args[3], <<>>))]

\* C19: join(a, via, b) returns true and adds exactly one through-route at
\* via when there was none, returns false and changes nothing on a later
\* call with the same arguments or with a and b swapped, and connect alone
\* creates no through-route.
C19_JoinOnceThenFalse ==
  [][C19_GraphJoin /\ C19_SimpleJoin /\ C19_ConnectAlone]_vars

\* C19 is at stake: a join with a and b the other way round than in the
\* pair stored at via has just returned false.
C19_Witness ==
  /\ last.op = "join" /\ ~last.threw
  /\ last.ret.join = FALSE
  /\ \E i \in 1..Len(byNode[last.args[2]].pairs) :
       /\ byNode[last.args[2]].pairs[i][1] = SideTowards(last.args[2], last.args[3])
       /\ byNode[last.args[2]].pairs[i][2] = SideTowards(last.args[2], last.args[1])

\* u and v stand next to each other in the node list of edge e.
NextToOn(e, u, v) ==
  \E i \in 1..(Len(byEdge[e].node) - 1) :
    {byEdge[e].node[i], byEdge[e].node[i + 1]} = {u, v}

\* a and b are each next to via on an edge, on two different edges.
InSequence(a, via, b) ==
  \E e \in DOMAIN byEdge, f \in DOMAIN byEdge :
    e # f /\ NextToOn(e, via, a) /\ NextToOn(f, via, b)

\* C20: Graph.join(a, via, b) throws and leaves the pair list of via (and
\* the rest of the graph) as it was unless a and b are each next to via on
\* an edge, on two different edges.
C20_JoinNeedsNeighbours ==
  [][(last'.op = "join" /\ ~InSequence(last'.args[1], last'.args[2], last'.args[3]))
       => (last'.threw /\ byNode' = byNode /\ byEdge' = byEdge)]_vars

\* ------------------------------------------------------------ GraphSimple: split of a path
\* The GraphSimple SpecCut starts from, made by the calls themselves: the
\* path 1 - 2 - 3 - 4 with a middle edge of length LineLen and two end
\* edges of length 1, joined through at 2 and at 3, and node 5 on its own.
PathSimple ==
  The({The({The({The({The({The({The({The({The({The({simpleJoin(s10, 2, 3, 4).S
    : s10 \in {simpleJoin(s9, 1, 2, 3).S}})
    : s9 \in {connect(s8, 3, 4, 1).S}})
    : s8 \in {connect(s7, 2, 3, LineLen).S}})
    : s7 \in {connect(s6, 1, 2, 1).S}})
    : s6 \in {addNode(s5, NoId).S}})
    : s5 \in {addNode(s4, NoId).S}})
    : s4 \in {addNode(s3, NoId).S}})
    : s3 \in {addNode(s2, NoId).S}})
    : s2 \in {addNode(s1, NoId).S}})
    : s1 \in {EmptySimple}})

InitCut ==
  /\ GraphIdle
  /\ sNode = PathSimple.byNode
  /\ sReserve = PathSimple.byReserve
  /\ globalId = PathSimple.globalId
  /\ last = NoCall

\* A name that no node has.
Stranger == -1

\* split(a, via, b, along) with any arguments: a and b nodes of the graph
\* or not, via a node of the graph or '', along any integer.
SplitAt ==
  /\ last.op = "none"
  /\ \E a \in DOMAIN sNode \cup {Stranger}, b \in DOMAIN sNode \cup {Stranger},
        via \in DOMAIN sNode \cup {NoId}, along \in (-LineLen)..(LineLen + 1) :
     \E r \in {split(Simple, a, via, b, along)} :
       /\ Cardinality(DOMAIN r.S.byNode) <= Cardinality(DOMAIN PathSimple.byNode) + MaxSplits
       /\ SetSimple(r.S)
       /\ last' = Call("split", r.threw, <<a, via, b, along>>, r.ret)

NextCut == SplitAt \/ Return

SpecCut == InitCut /\ [][NextCut]_vars

\* ------------------------------------------------------------ GraphSimple: snakes at a fork
\* The GraphSimple SpecFork keeps fixed, made by the calls themselves: node
\* 2 in the middle, connected to 1, 3, 4 and 5 in this order by edges of
\* length MaxLen, with 1 joined through to 3 and to 5, and 4 joined to
\* nothing.  One reservation is added to it, on any of the nodes.
ForkSimple ==
  The({The({The({The({The({The({The({The({The({The({The({simpleJoin(s11, 1, 2, 5).S
    : s11 \in {simpleJoin(s10, 1, 2, 3).S}})
    : s10 \in {connect(s9, 2, 5, MaxLen).S}})
    : s9 \in {connect(s8, 2, 4, MaxLen).S}})
    : s8 \in {connect(s7, 2, 3, MaxLen).S}})
    : s7 \in {connect(s6, 1, 2, MaxLen).S}})
    : s6 \in {addNode(s5, NoId).S}})
    : s5 \in {addNode(s4, NoId).S}})
    : s4 \in {addNode(s3, NoId).S}})
    : s3 \in {addNode(s2, NoId).S}})
    : s2 \in {addNode(s1, NoId).S}})
    : s1 \in {EmptySimple}})

InitFork ==
  /\ GraphIdle
  /\ \E node \in DOMAIN ForkSimple.byNode :
     \E r \in {addReserve(ForkSimple, node, NoId)} :
       /\ sNode = r.S.byNode
       /\ sReserve = r.S.byReserve
       /\ globalId = r.S.globalId
  /\ last = NoCall

\* grow(r, end, by, callback) with a callback that notes what it is called
\* with: the result is the growth grow returns and the notes.
GrowTold ==
  /\ last.op = "none"
  /\ \E id \in DOMAIN sReserve, end \in {-1, 1}, by \in 1..MaxBy, ans \in Answers :
     \E r \in {grow(Simple, id, end, by, ans)}, told \in {growTold(Simple, id, end, by, ans)} :
       /\ Len(r.S.byReserve[id].node) <= MaxPath
       /\ SetSimple(r.S)
       /\ last' = Call("growTold", r.threw, <<id, end, by>>, [growth |-> r.ret, told |-> told])

NextFork == GrowTold \/ Shrink \/ Return

SpecFork == InitFork /\ [][NextFork]_vars

\* ------------------------------------------------------------ connect, split: claims
\* The call just made, as the step from the state before it to the state
\* after it.
Called(op) == last.op = "none" /\ last'.op = op

SimpleUnchanged == sNode' = sNode /\ sReserve' = sReserve /\ globalId' = globalId

\* C21: connect(a, b, length) throws and leaves the graph as it was when
\* a = b, when a and b are connected already, or when length <= 0;
\* otherwise it makes one edge of that length, seen from a and from b, with
\* empty through sets.
C21_ConnectRefusesBadInput ==
  [][Called("connect")
       => LET a == last'.args[1]
              b == last'.args[2]
              length == last'.args[3]
          IN IF a = b \/ Connected(a, b) \/ length <= 0
             THEN last'.threw /\ SimpleUnchanged
             ELSE /\ ~last'.threw
                  /\ sReserve' = sReserve
                  /\ sNode' = [sNode EXCEPT
                                 ![a].conn = Append(@, ConnEntry(b, length, <<>>)),
                                 ![b].conn = Append(@, ConnEntry(a, length, <<>>))]]_vars

\* A split call that meets no objection other than where it cuts: a and b
\* are connected, and via is '' or a node other than a and b that is
\* connected to neither.
SplitCanCut(a, via, b) ==
  /\ Connected(a, b)
  /\ via # a /\ via # b
  /\ via = NoId \/ (via \in DOMAIN sNode /\ ~Connected(a, via) /\ ~Connected(b, via))

\* C22: split(a, via, b, at) of an edge of length L >= 2 succeeds for
\* at = 1 and for at = L - 1, and throws for at = 0, at = L and every
\* at > L.
C22_SplitInsideOnly ==
  [][Called("split")
       => LET a == last'.args[1]
              via == last'.args[2]
              b == last'.args[3]
              at == last'.args[4]
          IN SplitCanCut(a, via, b) /\ EdgeLength(a, b) >= 2
             => LET L == EdgeLength(a, b)
                IN /\ at \in {1, L - 1} => ~last'.threw
                   /\ (at = 0 \/ at >= L) => last'.threw]_vars

\* C22 is at stake: an edge of length L >= 2 has just been split at L - 1,
\* which is not 1.
C22_Witness ==
  /\ last.op = "split" /\ ~last.threw
  /\ last.args[4] >= 2
  /\ Connected(last.args[1], last.ret.split)
  /\ EdgeLength(last.ret.split, last.args[3]) = 1

\* In the node map nodes: u and v are connected, and the entry of u's conn
\* for v.
LinkedIn(nodes, u, v) ==
  /\ u \in DOMAIN nodes /\ v \in DOMAIN nodes
  /\ ConnIndex(nodes[u].conn, v) # 0
  /\ ConnIndex(nodes[v].conn, u) # 0

ConnIn(nodes, u, v) == nodes[u].conn[ConnIndex(nodes[u].conn, v)]

\* C23: split(a, via, b, at) with at < 0 and |at| below the length L of
\* the edge cuts at L - |at| from a: it succeeds, the edge from a to via
\* gets length L - |at| and the edge from via to b gets length |at|.
C23_NegativeCountsFromEnd ==
  [][Called("split")
       => LET a == last'.args[1]
              via == last'.args[2]
              b == last'.args[3]
              at == last'.args[4]
              v == last'.ret.split
          IN (SplitCanCut(a, via, b) /\ at < 0 /\ -at < EdgeLength(a, b))
             => /\ ~last'.threw
                /\ LinkedIn(sNode', a, v) /\ LinkedIn(sNode', v, b)
                /\ ConnIn(sNode', a, v).length = EdgeLength(a, b) + at
                /\ ConnIn(sNode', v, b).length = -at]_vars

\* C24: a split(a, via, b, at) that succeeds on an edge of length L takes
\* the connection between a and b away, connects a and via by an edge of
\* length at and via and b by an edge of length L - at, and gives via the
\* through set {b} coming from a and the through set {a} coming from b.
C24_SplitReplacesEdge ==
  [][(Called("split") /\ ~last'.threw)
       => LET a == last'.args[1]
              b == last'.args[3]
              at == last'.args[4]
              v == last'.ret.split
              L == EdgeLength(a, b)
          IN /\ Connected(a, b)
             /\ ConnIndex(sNode'[a].conn, b) = 0 /\ ConnIndex(sNode'[b].conn, a) = 0
             /\ LinkedIn(sNode', a, v) /\ LinkedIn(sNode', v, b)
             /\ ConnIn(sNode', a, v).length = at /\ ConnIn(sNode', v, a).length = at
             /\ ConnIn(sNode', v, b).length = L - at /\ ConnIn(sNode', b, v).length = L - at
             /\ at > 0 /\ L - at > 0
             /\ ConnIn(sNode', v, a).through = <<b>>
             /\ ConnIn(sNode', v, b).through = <<a>>]_vars

\* C24 is at stake: a split has just succeeded with a via that had a
\* connection of its own before.
C24_Witness ==
  /\ last.op = "split" /\ ~last.threw
  /\ last.args[2] # NoId
  /\ Len(sNode[last.args[2]].conn) > 2

\* In the node map nodes: at node n, what comes from x may go on to y.
ThroughIn(nodes, x, n, y) ==
  /\ LinkedIn(nodes, n, x)
  /\ Has(ConnIn(nodes, n, x).through, y)

\* At end node n of an edge just split, the other end being far and the
\* new middle node v: every route x - n - far of before is a route
\* x - n - v now, in both directions, and no through set at n names far.
RoutesMoved(n, far, v) ==
  /\ \A x \in DOMAIN sNode :
       /\ ThroughIn(sNode, x, n, far) => ThroughIn(sNode', x, n, v)
       /\ ThroughIn(sNode, far, n, x) => ThroughIn(sNode', v, n, x)
  /\ \A i \in 1..Len(sNode'[n].conn) : ~Has(sNode'[n].conn[i].through, far)

\* C25: a split(a, via, b, at) that succeeds keeps what could go through a
\* and through b: a route x - a - b of before is a route x - a - via after,
\* in both directions, a route a - b - y is a route via - b - y, and no
\* through set at a names b nor one at b names a.
C25_SplitKeepsRoutes ==
  [][(Called("split") /\ ~last'.threw)
       => /\ RoutesMoved(last'.args[1], last'.args[3], last'.ret.split)
          /\ RoutesMoved(last'.args[3], last'.args[1], last'.ret.split)]_vars

\* C25 is at stake: the split that has just succeeded moved a route at a
\* and a route at b to the new middle node.
C25_Witness ==
  /\ last.op = "split" /\ ~last.threw
  /\ \E x \in DOMAIN sNode : ThroughIn(sNode, x, last.args[1], last.ret.split)
  /\ \E y \in DOMAIN sNode : ThroughIn(sNode, y, last.args[3], last.ret.split)

\* C26: a split call that throws leaves the graph as it was, whatever the
\* cause and also when via was '': no node is made and no connection or
\* through set changes.
C26_FailedSplitChangesNothing ==
  [][(Called("split") /\ last'.threw) => SimpleUnchanged]_vars

\* ------------------------------------------------------------ grow, shrink: claims
\* The end node of a node list at an end, the node next to it (NoId on a
\* single node), and the offset of a reservation at an end.
EndNode(node, end) == IF end = 1 THEN node[1] ELSE node[Len(node)]

PriorNode(node, end) ==
  IF Len(node) = 1 THEN NoId
  ELSE IF end = 1 THEN node[2] ELSE node[Len(node) - 1]

EndOffset(reserveData, end) ==
  IF end = 1 THEN reserveData.headOffset ELSE reserveData.tailOffset

\* The neighbours of v that what comes from p may go on to, in the order
\* of v's connections; every neighbour when p is NoId.
Candidates(p, v) ==
  LET conn == sNode[v].conn
      keys == [i \in 1..Len(conn) |-> conn[i].node]
  IN IF p = NoId THEN keys
     ELSE SelectSeq(keys, LAMBDA n : ThroughIn(sNode, p, v, n))

\* C27, for grow: the call returns g with 0 <= g <= by and the length goes
\* up by g; g is by unless the end has come to stand on a node where no
\* next edge was taken, for want of a candidate or of an answer.
C27_GrowReturnsGrowth ==
  Called("growTold")
    => LET r == last'.args[1]
           end == last'.args[2]
           by == last'.args[3]
           g == last'.ret.growTold.growth
           after == sReserve'[r]
       IN /\ ~last'.threw
          /\ 0 <= g /\ g <= by
          /\ after.length = sReserve[r].length + g
          /\ g < by
               => /\ EndOffset(after, end) = 0
                  /\ \/ Candidates(PriorNode(after.node, end), EndNode(after.node, end)) = <<>>
                     \/ last'.ret.growTold.told # <<>>

\* C27, for shrink: the call returns the smaller of by and the length
\* before it, and the length goes down by that.
C27_ShrinkReturnsLoss ==
  Called("shrink")
    => LET r == last'.args[1]
           by == last'.args[3]
       IN /\ ~last'.threw
          /\ last'.ret.shrink = Min(by, sReserve[r].length)
          /\ sReserve'[r].length = sReserve[r].length - last'.ret.shrink

\* C27: grow(r, end, by) returns g in 0..by and makes the reservation g
\* longer, with g = by when there is track enough ahead; shrink(r, end, by)
\* returns min(by, length) and makes it that much shorter.
C27_GrowShrinkByWhatTheyReturn ==
  [][C27_GrowReturnsGrowth /\ C27_ShrinkReturnsLoss]_vars

\* C27 is at stake: a grow has just stopped at a dead end with part of by
\* done, on a reservation a shrink had cut short before.
C27_Witness ==
  /\ last.op = "growTold" /\ ~last.threw
  /\ 0 < last.ret.growTold.growth
  /\ last.ret.growTold.growth < last.args[3]
  /\ EndOffset(sReserve[last.args[1]], -last.args[2]) > 0

\* The reservation r after a shrink(r, end, by) called right after the step
\* leaves where it was before the step: same node list, same offsets, and
\* the shrink does not throw.
ShrinkRestores(r, end, by) ==
  \A back \in {shrink(SimpleAfter, r, end, by)} :
    /\ ~back.threw
    /\ back.S.byReserve[r].node = sReserve[r].node
    /\ back.S.byReserve[r].headOffset = sReserve[r].headOffset
    /\ back.S.byReserve[r].tailOffset = sReserve[r].tailOffset

\* C28, as claimed: grow(s, e, n) followed at once by shrink(s, e, n) puts
\* the node list and the two offsets of the snake back to what they were
\* before the grow, also when the grow made only part of n.
C28_GrowShrinkSameAmount ==
  [][Called("growTold")
       => ShrinkRestores(last'.args[1], last'.args[2], last'.args[3])]_vars

\* C28, amended: grow(s, e, n) followed at once by a shrink(s, e, g) of the
\* growth g the grow returned puts the node list and the two offsets of the
\* snake back to what they were before the grow.
C28_GrowShrinkWhatGrew ==
  [][Called("growTold")
       => ShrinkRestores(last'.args[1], last'.args[2], last'.ret.growTold.growth)]_vars

\* C28 is at stake: a grow has just made part of what it was asked for, on
\* a snake that had a length before.
C28_Witness ==
  /\ last.op = "growTold" /\ ~last.threw
  /\ 0 < last.ret.growTold.growth
  /\ last.ret.growTold.growth < last.args[3]
  /\ sReserve[last.args[1]].length > last.ret.growTold.growth

\* A snake of length 0 that stands where the end opposite to end of the
\* snake before stood: on that end's node when the end had offset 0, and
\* else on the edge of that end, the two offsets adding up to its length.
AtOppositeEnd(before, after, end) ==
  LET node == before.node
      far == EndNode(node, -end)
  IN /\ after.length = 0
     /\ IF EndOffset(before, -end) = 0
        THEN /\ after.node = <<far>>
             /\ after.headOffset = 0 /\ after.tailOffset = 0
        ELSE /\ Len(after.node) = 2
             /\ EndNode(after.node, -end) = far
             /\ EndNode(after.node, end) = PriorNode(node, -end)
             /\ EndOffset(after, -end) = EndOffset(before, -end)
             /\ after.headOffset + after.tailOffset
                  = EdgeLength(after.node[1], after.node[2])

\* C29: shrink(r, end, by) with by >= the length of the snake, the length
\* not 0, leaves a snake of length 0 at the place of its opposite end, on
\* the end's node or on its edge; the snake stays in the graph, and a
\* shrink more returns 0 and changes nothing.
C29_ShrinkToAPoint ==
  [][Called("shrink")
       => LET r == last'.args[1]
              end == last'.args[2]
              by == last'.args[3]
          IN (0 < sReserve[r].length /\ sReserve[r].length <= by)
             => /\ ~last'.threw
                /\ r \in DOMAIN sReserve'
                /\ AtOppositeEnd(sReserve[r], sReserve'[r], end)
                /\ \A e \in {-1, 1}, n \in 1..MaxBy :
                     \A more \in {shrink(SimpleAfter, r, e, n)} :
                       ~more.threw /\ more.ret = 0 /\ more.S = SimpleAfter]_vars

\* C29 is at stake: a shrink by more than the snake had has just taken it
\* down to length 0, to a place on an edge.
C29_Witness ==
  /\ last.op = "shrink" /\ ~last.threw
  /\ 0 < last.ret.shrink /\ last.ret.shrink < last.args[3]
  /\ sReserve[last.args[1]].length = 0
  /\ Len(sReserve[last.args[1]].node) = 2

\* C30, for a call of the callback: the node it is called with is the node
\* the growing end stands on, and the options are the neighbours of that
\* node that what comes from the node before it may go on to, every
\* neighbour when the snake is on one node only, in the order of the
\* node's connections.
OfferedRight(told, end) ==
  /\ told.node = EndNode(told.path, end)
  /\ told.options = Candidates(PriorNode(told.path, end), told.node)

\* C30, for the step the end takes: a node the grow has put in front of the
\* end without asking is a neighbour that what comes from the node before
\* may go on to.
TakenRight(before, after, end) ==
  \A i \in 1..(Len(after) - Len(before)) :
    LET path == IF end = 1 THEN SubSeq(after, i + 1, Len(after))
                ELSE SubSeq(after, 1, Len(after) - i)
        taken == IF end = 1 THEN after[i] ELSE after[Len(after) - i + 1]
    IN Has(Candidates(PriorNode(path, end), EndNode(path, end)), taken)

\* C30: when the growing end of a snake stands on node v, reached from p,
\* what the callback is offered is the neighbours of v joined through with
\* p, in the order the connections were made (every neighbour for a snake
\* on one node), and a neighbour of v not joined with p is never offered,
\* nor taken when the callback is not asked.
C30_OfferedAreJoined ==
  [][Called("growTold")
       => LET told == last'.ret.growTold.told
              end == last'.args[2]
              r == last'.args[1]
          IN /\ \A i \in 1..Len(told) : OfferedRight(told[i], end)
             /\ told = <<>> => TakenRight(sReserve[r].node, sReserve'[r].node, end)]_vars

\* C30 is at stake: the callback has just been asked at node 2 by a snake
\* that came from node 1, and node 2 has a neighbour not joined with 1.
C30_Witness ==
  /\ last.op = "growTold" /\ ~last.threw
  /\ Len(last.ret.growTold.told) > 0
  /\ \E i \in 1..Len(last.ret.growTold.told) :
       LET told == last.ret.growTold.told[i]
       IN /\ Len(told.path) > 1
          /\ Len(told.options) < Len(sNode[told.node].conn) - 1

\* ------------------------------------------------------------ the callback of grow: claims
\* The node list a grow at end had before it took the i-th last of the
\* nodes it has put in front of that end, after being the list it has now.
PathBefore(after, end, i) ==
  IF end = 1 THEN SubSeq(after, i + 1, Len(after)) ELSE SubSeq(after, 1, Len(after) - i)

\* The callback was called with the reservation on this node list.
AskedOn(told, path) == \E j \in 1..Len(told) : told[j].path = path

\* How many options the end of a node list has to go on.
Choices(path, end) == Len(Candidates(PriorNode(path, end), EndNode(path, end)))

\* An answer '' of the callback stops the grow where it asked: the node
\* list stays the one the callback saw, the end on its node, and the grow
\* returns what the reservation has got longer by up to there.
NoChoiceHalts(before, after, end, g, told) ==
  \A j \in 1..Len(told) :
    told[j].answer = NoId
      => /\ after.node = told[j].path
         /\ EndOffset(after, end) = 0
         /\ g = after.length - before.length
         /\ after.length = PathLength(after.node) - after.headOffset - after.tailOffset

\* C31, as claimed: grow asks the callback before every edge it takes, also
\* when there is one candidate only, and an answer '' stops the growth at
\* that node.
C31_AsksBeforeEveryEdge ==
  [][Called("growTold")
       => LET r == last'.args[1]
              end == last'.args[2]
              told == last'.ret.growTold.told
              after == sReserve'[r].node
          IN /\ \A i \in 1..(Len(after) - Len(sReserve[r].node)) :
                  AskedOn(told, PathBefore(after, end, i))
             /\ NoChoiceHalts(sReserve[r], sReserve'[r], end, last'.ret.growTold.growth, told)]_vars

\* C31, amended: grow asks the callback before an edge it takes exactly
\* when there is more than one candidate, and takes the only candidate
\* unasked; an answer '' stops the growth at that node.
C31_AsksWhenSeveral ==
  [][Called("growTold")
       => LET r == last'.args[1]
              end == last'.args[2]
              told == last'.ret.growTold.told
              after == sReserve'[r].node
          IN /\ \A i \in 1..(Len(after) - Len(sReserve[r].node)) :
                  AskedOn(told, PathBefore(after, end, i))
                    <=> Choices(PathBefore(after, end, i), end) > 1
             /\ \A j \in 1..Len(told) : Len(told[j].options) > 1
             /\ NoChoiceHalts(sReserve[r], sReserve'[r], end, last'.ret.growTold.growth, told)]_vars

\* C31 is at stake: a grow of a reservation that stood on one node with
\* one connection has just taken that whole edge, and the callback was not
\* called.
C31_Witness ==
  /\ last.op = "growTold" /\ ~last.threw
  /\ last.ret.growTold.told = <<>>
  /\ last.ret.growTold.growth = MaxLen
  /\ LET reserveData == sReserve[last.args[1]]
     IN /\ reserveData.length = MaxLen
        /\ Len(reserveData.node) = 2
        /\ reserveData.headOffset = 0 /\ reserveData.tailOffset = 0

\* Every three nodes in a row of a node list are a route: the outer two are
\* connected to the middle one, which lets the first through to the third.
RoutesOnly(node) ==
  \A i \in 1..(Len(node) - 2) :
    /\ LinkedIn(sNode, node[i + 1], node[i])
    /\ LinkedIn(sNode, node[i + 1], node[i + 2])
    /\ ThroughIn(sNode, node[i], node[i + 1], node[i + 2])

\* C40: whatever the callback answers, every three nodes in a row of a
\* reservation's node list are a route through the middle one, and an
\* answer that is none of the options offered puts no node on the list.
C40_OnlyOfferedExtends ==
  [][Called("growTold")
       => LET r == last'.args[1]
              told == last'.ret.growTold.told
          IN /\ RoutesOnly(sReserve'[r].node)
             /\ \A j \in 1..Len(told) :
                  ~Has(told[j].options, told[j].answer)
                    => sReserve'[r].node = told[j].path]_vars

\* ------------------------------------------------------------ HeightMap
\* src/src/helper/heights.js.  The map is made for a length (the
\* constructor's argument) and keeps its entries in an array.
HeightLength == 2                \* new HeightMap(length)
MaxEntries == 2                  \* entries kept at once
HeightValues == {1, 2}           \* the values added: two different strings
Offsets == -1..HeightLength      \* the offsets asked for, one of them off the map

\* #resolve(less, leftOffset, rightOffset): the range [left, right], the
\* right offset counted from the far end.
resolve(less, leftOffset, rightOffset) ==
  The({The({IF left > right \/ left < 0 \/ right > HeightLength
            THEN [threw |-> TRUE, left |-> left, right |-> right]
            ELSE [threw |-> FALSE, left |-> left, right |-> right]
    : right \in {HeightLength - (IF less THEN leftOffset ELSE rightOffset)}})
    : left \in {IF less THEN rightOffset ELSE leftOffset}})

\* add(less, leftOffset, rightOffset, value)
heightAdd(data, less, leftOffset, rightOffset, value) ==
  The({IF r.threw
       THEN [data |-> data, threw |-> TRUE, ret |-> NoId]
       ELSE [data |-> Append(data, [left |-> r.left, right |-> r.right, value |-> value]),
             threw |-> FALSE, ret |-> NoId]
    : r \in {resolve(less, leftOffset, rightOffset)}})

\* The comparison of remove's findIndex: `value === value` compares the
\* argument with itself.
heightSame(raw, left, right, value) ==
  raw.left = left /\ raw.right = right /\ value = value

\* Array.prototype.findIndex with heightSame: 0 when nothing is found.
heightFindIndex(data, left, right, value) ==
  IF \E i \in 1..Len(data) : heightSame(data[i], left, right, value)
  THEN CHOOSE i \in 1..Len(data) :
         /\ heightSame(data[i], left, right, value)
         /\ \A j \in 1..(i - 1) : ~heightSame(data[j], left, right, value)
  ELSE 0

\* remove(less, leftOffset, rightOffset, value)
heightRemove(data, less, leftOffset, rightOffset, value) ==
  The({IF r.threw
       THEN [data |-> data, threw |-> TRUE, ret |-> FALSE]
       ELSE The({IF index = 0
                 THEN [data |-> data, threw |-> FALSE, ret |-> FALSE]
                 ELSE [data |-> RemoveAt(data, index), threw |-> FALSE, ret |-> TRUE]
              : index \in {heightFindIndex(data, r.left, r.right, value)}})
    : r \in {resolve(less, leftOffset, rightOffset)}})

\* overlap(a, b) of query
overlap(a, b) ==
  IF b.left <= a.left THEN b.right >= a.left ELSE b.left <= a.right

RECURSIVE heightOverlaps(_, _)
heightOverlaps(data, req) ==
  IF data = <<>> THEN <<>>
  ELSE (IF overlap(req, Head(data)) THEN <<Head(data).value>> ELSE <<>>)
       \o heightOverlaps(Tail(data), req)

\* query(less, leftOffset, rightOffset)
heightQuery(data, less, leftOffset, rightOffset) ==
  The({IF r.threw
       THEN [data |-> data, threw |-> TRUE, ret |-> <<>>]
       ELSE [data |-> data, threw |-> FALSE, ret |-> heightOverlaps(data, r)]
    : r \in {resolve(less, leftOffset, rightOffset)}})

\* ------------------------------------------------------------ HeightMap: calls
InitHeights ==
  /\ byNode = EmptyMap
  /\ byEdge = EmptyMap
  /\ globalId = 0
  /\ SimpleIdle
  /\ last = NoCall

SetHeights(data) ==
  /\ heights' = data
  /\ UNCHANGED <<byNode, byEdge, globalId, sNode, sReserve, arrays, game, man>>

HeightAdd ==
  /\ last.op = "none"
  /\ Len(heights) < MaxEntries
  /\ \E less \in BOOLEAN, leftOffset \in Offsets, rightOffset \in Offsets, value \in HeightValues :
     \E r \in {heightAdd(heights, less, leftOffset, rightOffset, value)} :
       /\ SetHeights(r.data)
       /\ last' = Call("heightAdd", r.threw, <<less, leftOffset, rightOffset, value>>, r.ret)

HeightRemove ==
  /\ last.op = "none"
  /\ \E less \in BOOLEAN, leftOffset \in Offsets, rightOffset \in Offsets, value \in HeightValues :
     \E r \in {heightRemove(heights, less, leftOffset, rightOffset, value)} :
       /\ SetHeights(r.data)
       /\ last' = Call("heightRemove", r.threw, <<less, leftOffset, rightOffset, value>>, r.ret)

HeightQuery ==
  /\ last.op = "none"
  /\ \E less \in BOOLEAN, leftOffset \in Offsets, rightOffset \in Offsets :
     \E r \in {heightQuery(heights, less, leftOffset, rightOffset)} :
       /\ SetHeights(r.data)
       /\ last' = Call("heightQuery", r.threw, <<less, leftOffset, rightOffset>>, r.ret)

NextHeights == HeightAdd \/ HeightRemove \/ HeightQuery \/ Return

SpecHeights == InitHeights /\ [][NextHeights]_vars

\* ------------------------------------------------------------ HeightMap: claims
\* The entries of data with the given range and value.
EntriesLike(data, left, right, value) ==
  {i \in 1..Len(data) :
     data[i].left = left /\ data[i].right = right /\ data[i].value = value}

\* C36: remove(less, leftOffset, rightOffset, value) takes out exactly one
\* entry whose resolved range and whose value are the ones asked for and
\* returns true; when no entry has that range with that value it returns
\* false and takes nothing out.  The less flag only swaps the two offsets:
\* remove(less, x, y, v) does what remove(~less, y, x, v) does.
C36_RemoveByRangeAndValue ==
  [][Called("heightRemove") /\ ~last'.threw =>
       \E r \in {resolve(last'.args[1], last'.args[2], last'.args[3])} :
         /\ IF EntriesLike(heights, r.left, r.right, last'.args[4]) = {}
            THEN last'.ret.heightRemove = FALSE /\ heights' = heights
            ELSE /\ last'.ret.heightRemove = TRUE
                 /\ \E i \in EntriesLike(heights, r.left, r.right, last'.args[4]) :
                      heights' = RemoveAt(heights, i)
         /\ heightRemove(heights, ~last'.args[1], last'.args[3], last'.args[2], last'.args[4]).data
              = heights']_vars

\* ------------------------------------------------------------ Graph: sibling edges
\* C38: edge f is in the 'other' set edgeDetails reports for edge e exactly
\* when e and f are different edges with a node in common, and so the
\* relation is symmetric.
C38_OtherIsSharingANode ==
  \A e \in DOMAIN byEdge, f \in DOMAIN byEdge :
    /\ f \in edgeDetails(Graph, e).other <=> (e # f /\ Common(e, f) # {})
    /\ f \in edgeDetails(Graph, e).other <=> e \in edgeDetails(Graph, f).other

\* Two edges made to share a node by a mergeNode, each in the other's set.
C38_Witness ==
  /\ last.op = "mergeNode"
  /\ ~last.threw
  /\ \E e \in DOMAIN byEdge, f \in DOMAIN byEdge :
       /\ e # f
       /\ Common(e, f) # {}
       /\ f \in edgeDetails(Graph, e).other
       /\ e \in edgeDetails(Graph, f).other

\* ------------------------------------------------------------ Graph: pairs after a split
\* The place at on edge e lies strictly between nodes u and v of that edge.
StrictlyBetween(G, e, at, u, v) ==
  /\ Has(G.byEdge[e].node, u)
  /\ Has(G.byEdge[e].node, v)
  /\ \E pu \in {nodeOnEdge(G, e, u).at}, pv \in {nodeOnEdge(G, e, v).at} :
       (pu < at /\ at < pv) \/ (pv < at /\ at < pu)

\* The pairs pairsAtNode(via) gave, with x in place of every node that the
\* place at on edge e parts from via.
PairsWith(G, pairs, via, e, at, x) ==
  [i \in 1..Len(pairs) |->
     <<IF StrictlyBetween(G, e, at, via, pairs[i][1]) THEN x ELSE pairs[i][1],
       IF StrictlyBetween(G, e, at, via, pairs[i][2]) THEN x ELSE pairs[i][2]>>]

\* splitEdge(e, at) puts a new node x inside edge e: after it pairsAtNode
\* gives, at every node, the pairs it gave with x in place of the nodes x
\* now parts from that node, and once x is taken out again
\* (#internalDeleteNode, the cleanup of search) it gives the pairs it gave.
SplitMovesPairs(G, e, at) ==
  \A s \in {splitEdge(G, e, at)} :
    (~s.threw /\ ~HasNode(G, s.ret.node)) =>
      \A via \in DOMAIN G.byNode :
        \A before \in {pairsAtNode(G, via)}, after \in {pairsAtNode(s.G, via)},
           back \in {pairsAtNode(internalDeleteNode(s.G, s.ret.node).G, via)} :
          /\ ~after.threw
          /\ after.ret = PairsWith(G, before.ret, via, e, at, s.ret.node)
          /\ ~back.threw
          /\ back.ret = before.ret

\* C37: a pair stored at via resolves to the nodes next to via: a node x
\* put by splitEdge strictly between via and a takes the place of a in the
\* pairs pairsAtNode(via) gives, taking x out again restores them, and
\* pairsAtNode throws for no node of the graph, whatever was called before.
C37_PairsFollowTheNeighbour ==
  /\ \A v \in DOMAIN byNode : ~pairsAtNode(Graph, v).threw
  /\ \A e \in DOMAIN byEdge :
       \A at \in 1..(byEdge[e].length - 1) : SplitMovesPairs(Graph, e, at)

\* ------------------------------------------------------------ GraphSimple with arrays
\* src/src/graph2.js: the GraphSimple whose through lists are arrays.  An
\* array is an object: two conn entries can hold the same array, and a push
\* to it through one entry shows through the other.  S.arrays holds the
\* arrays in the order they were made and a through field is the index of
\* its array there.  Both conn entries of a connection hold one edge object
\* made with them, so the two lengths always agree and the edge is kept by
\* its length alone.
EmptyArr == [byNode |-> EmptyMap, arrays |-> <<>>, globalId |-> 0]

Arr == [byNode |-> sNode, arrays |-> arrays, globalId |-> globalId]

\* The nodes conn entry c goes through to.
ThroughOf(S, c) == S.arrays[c.through]

\* addNode(id); id = NoId stands for the default nextGlobalId().
arrAddNode(S, id) ==
  LET T == IF id = NoId THEN [S EXCEPT !.globalId = @ + 1] ELSE S
      n == IF id = NoId THEN T.globalId ELSE id
  IN IF n \in DOMAIN T.byNode THEN SThrow(T)
     ELSE SDone([T EXCEPT !.byNode = Put(@, n, [conn |-> <<>>])], n)

\* connect(a, b, length): each of the two entries gets an empty array of
\* its own.
arrConnect(S, a, b, length) ==
  IF a = b THEN SThrow(S)
  ELSE IF a \notin DOMAIN S.byNode \/ b \notin DOMAIN S.byNode THEN SThrow(S)
  ELSE IF ConnIndex(S.byNode[a].conn, b) # 0 \/ ConnIndex(S.byNode[b].conn, a) # 0 THEN SThrow(S)
  ELSE LET k == Len(S.arrays) IN
       SDone([S EXCEPT !.arrays = @ \o <<<<>>, <<>>>>,
                       !.byNode[a].conn = Append(@, ConnEntry(b, length, k + 1)),
                       !.byNode[b].conn = Append(@, ConnEntry(a, length, k + 2))],
             TRUE)

\* c.through = c.through.map((other) => other === from ? to : other) for
\* every entry c of conn: each entry gets a new array.
RECURSIVE mapThrough(_, _, _, _, _)
mapThrough(S, n, i, from, to) ==
  IF i > Len(S.byNode[n].conn) THEN S
  ELSE mapThrough([S EXCEPT
                     !.arrays = Append(@, [j \in 1..Len(ThroughOf(S, S.byNode[n].conn[i])) |->
                                             IF ThroughOf(S, S.byNode[n].conn[i])[j] = from
                                             THEN to
                                             ELSE ThroughOf(S, S.byNode[n].conn[i])[j]]),
                     !.byNode[n].conn[i].through = Len(S.arrays) + 1],
                  n, i + 1, from, to)

\* split(a, via, b, along)
arrSplit(S, a, via, b, along) ==
  IF along = 0 THEN SThrow(S)
  ELSE IF a = b \/ a = via \/ via = b THEN SThrow(S)
  ELSE IF a \notin DOMAIN S.byNode \/ b \notin DOMAIN S.byNode \/ via \notin DOMAIN S.byNode
    THEN SThrow(S)
  ELSE IF ConnIndex(S.byNode[a].conn, via) # 0 \/ ConnIndex(S.byNode[b].conn, via) # 0
    THEN SThrow(S)
  ELSE IF ConnIndex(S.byNode[a].conn, b) = 0 \/ ConnIndex(S.byNode[b].conn, a) = 0
    THEN SThrow(S)
  ELSE
  The({The({
    IF at >= connA.length \/ at <= 0 THEN SThrow(S)
    ELSE The({The({The({
           SDone([S3 EXCEPT
                    !.arrays = @ \o <<<<b>>, <<a>>>>,
                    !.byNode[a].conn = Append(@, ConnEntry(via, at, connA.through)),
                    !.byNode[b].conn = Append(@, ConnEntry(via, connA.length - at, connA.through)),
                    !.byNode[via].conn = @ \o <<ConnEntry(a, at, Len(S3.arrays) + 1),
                                                ConnEntry(b, connA.length - at, Len(S3.arrays) + 2)>>],
                 NoId)
      : S3 \in {mapThrough(S2, b, 1, a, via)}})
      : S2 \in {mapThrough(S1, a, 1, b, via)}})
      : S1 \in {[S EXCEPT
                   !.byNode[a].conn = RemoveAt(@, ConnIndex(@, b)),
                   !.byNode[b].conn = RemoveAt(@, ConnIndex(@, a))]}})
    : at \in {IF along < 0 THEN connA.length - along ELSE along}})
    : connA \in {S.byNode[a].conn[ConnIndex(S.byNode[a].conn, b)]}})

\* arrayInsert(arr, add), arr the array S.arrays[k] and item what is added:
\* [S, ret].
arrayInsert(S, k, item) ==
  IF Has(S.arrays[k], item) THEN [S |-> S, ret |-> FALSE]
  ELSE [S |-> [S EXCEPT !.arrays[k] = Append(@, item)], ret |-> TRUE]

\* join(a, via, b)
arrJoin(S, a, via, b) ==
  IF a = b \/ a = via \/ via = b THEN SThrow(S)
  ELSE IF via \notin DOMAIN S.byNode THEN SThrow(S)
  ELSE
  LET conn == S.byNode[via].conn
      ia == ConnIndex(conn, a)
      ib == ConnIndex(conn, b)
  IN IF ia = 0 \/ ib = 0 THEN SThrow(S)
     ELSE The({The({SDone(second.S, second.ret \/ first.ret)
            : second \in {arrayInsert(first.S, conn[ib].through, a)}})
            : first \in {arrayInsert(S, conn[ia].through, b)}})

\* The through fields of the conn entries of the nodes, node after node.
RECURSIVE RefsFrom(_, _)
RefsFrom(S, nodes) ==
  IF nodes = {} THEN <<>>
  ELSE LET n == CHOOSE x \in nodes : \A y \in nodes : x <= y
       IN [i \in 1..Len(S.byNode[n].conn) |-> S.byNode[n].conn[i].through]
          \o RefsFrom(S, nodes \ {n})

RECURSIVE FirstOnes(_, _)
FirstOnes(seen, s) ==
  IF s = <<>> THEN seen
  ELSE FirstOnes(IF Has(seen, Head(s)) THEN seen ELSE Append(seen, Head(s)), Tail(s))

\* The arrays no conn entry holds any more are gone (nothing can reach
\* them), and those left are numbered in the order the conn entries come to
\* them: which entries hold one and the same array is kept.
Compact(S) ==
  The({[S EXCEPT
          !.arrays = [k \in 1..Len(order) |-> S.arrays[order[k]]],
          !.byNode = [n \in DOMAIN S.byNode |->
                        [conn |-> [i \in 1..Len(S.byNode[n].conn) |->
                                     [S.byNode[n].conn[i] EXCEPT !.through = IndexOf(order, @)]]]]]
    : order \in {FirstOnes(<<>>, RefsFrom(S, DOMAIN S.byNode))}})

\* ------------------------------------------------------------ GraphSimple with arrays: calls
ArrNodes == 4     \* nodes added
ArrEdges == 2     \* connect is called while the graph has fewer connections

InitArr ==
  /\ byNode = EmptyMap
  /\ byEdge = EmptyMap
  /\ globalId = 0
  /\ SimpleIdle
  /\ last = NoCall

SetArr(S) ==
  /\ \E T \in {Compact(S)} :
       /\ sNode' = T.byNode
       /\ arrays' = T.arrays
       /\ globalId' = T.globalId
  /\ UNCHANGED <<byNode, byEdge, sReserve, heights, game, man>>

ArrAddNode ==
  /\ last.op = "none"
  /\ Cardinality(DOMAIN sNode) < ArrNodes
  /\ \E r \in {arrAddNode(Arr, NoId)} :
       /\ SetArr(r.S)
       /\ last' = Call("arrAddNode", r.threw, <<>>, r.ret)

\* The connections of the graph: every one is kept at both its nodes.
RECURSIVE EntriesFrom(_, _)
EntriesFrom(S, nodes) ==
  IF nodes = {} THEN 0
  ELSE LET n == CHOOSE x \in nodes : TRUE
       IN Len(S.byNode[n].conn) + EntriesFrom(S, nodes \ {n})

ArrConnect ==
  /\ last.op = "none"
  /\ EntriesFrom(Arr, DOMAIN sNode) < 2 * ArrEdges
  /\ \E a \in DOMAIN sNode, b \in DOMAIN sNode :
     \E r \in {arrConnect(Arr, a, b, MaxLen)} :
       /\ SetArr(r.S)
       /\ last' = Call("arrConnect", r.threw, <<a, b, MaxLen>>, r.ret)

ArrSplit ==
  /\ last.op = "none"
  /\ \E a \in DOMAIN sNode, via \in DOMAIN sNode, b \in DOMAIN sNode, along \in 0..MaxLen :
     \E r \in {arrSplit(Arr, a, via, b, along)} :
       /\ SetArr(r.S)
       /\ last' = Call("arrSplit", r.threw, <<a, via, b, along>>, r.ret)

ArrJoin ==
  /\ last.op = "none"
  /\ \E a \in DOMAIN sNode, via \in DOMAIN sNode, b \in DOMAIN sNode :
     \E r \in {arrJoin(Arr, a, via, b)} :
       /\ SetArr(r.S)
       /\ last' = Call("arrJoin", r.threw, <<a, via, b>>, r.ret)

NextArr == ArrAddNode \/ ArrConnect \/ ArrSplit \/ ArrJoin \/ Return

SpecArr == InitArr /\ [][NextArr]_vars

\* ------------------------------------------------------------ GraphSimple with arrays: claims
\* C39: through-routing is well formed and symmetric at every node n:
\* every node c that the entry of x at n goes through to is connected to n
\* and is not x, and it goes through to c exactly when the entry of c at n
\* goes through to x.
C39_ThroughWellFormed ==
  \A n \in DOMAIN sNode :
    \A i \in 1..Len(sNode[n].conn) :
      \A c \in SeqToSet(ThroughOf(Arr, sNode[n].conn[i])) :
        /\ c # sNode[n].conn[i].node
        /\ ConnIndex(sNode[n].conn, c) # 0
        /\ Has(ThroughOf(Arr, sNode[n].conn[ConnIndex(sNode[n].conn, c)]), sNode[n].conn[i].node)

\* ------------------------------------------------------------ TrainGame: trains
\* src/src/game.js.  The game keeps a GraphSimple with reservations (the
\* trains), the position of every node, and for every train the end it
\* moves at.  What the constructor is given:
MoveBy == 1          \* opts.moveBy
TrainLength == 2     \* opts.trainLength
StepEvery == 2       \* opts.stepEvery

\* A types.LineSearch: a node, a place on the line low-high (offset, here
\* in halves of the line), or a free point; NoOffset stands for NaN.
NoOffset == -1

LineSearch(attached, node, low, high, offset, x, y) ==
  [attached |-> attached, node |-> node, low |-> low, high |-> high, offset |-> offset,
   x |-> x, y |-> y]

\* Math.round(offset * length) for an offset of so many halves.
RoundHalves(length, offset) == (length * offset + 1) \div 2

\* lineFor(a, b): the length of the connection in ret, NoLine for null.
NoLine == -1

lineFor(S, a, b) ==
  IF a \notin DOMAIN S.byNode THEN SThrow(S)
  ELSE IF ConnIndex(S.byNode[a].conn, b) = 0 THEN SDone(S, NoLine)
  ELSE SDone(S, S.byNode[a].conn[ConnIndex(S.byNode[a].conn, b)].length)

\* query(r): the other reservations that share a node with r.
query(S, r) ==
  {o \in DOMAIN S.byReserve \ {r} :
     \E n \in DOMAIN S.byNode : r \in S.byNode[n].reserve /\ o \in S.byNode[n].reserve}

\* randomGrow picks one of the choices it is given, '' when there is none:
\* the answers ans are such picks when every answer grow took was among
\* the options it offered.
PickedAmong(told) ==
  \A j \in 1..Len(told) :
    IF told[j].options = <<>> THEN told[j].answer = NoId
    ELSE Has(told[j].options, told[j].answer)

\* The answers of a callback that always gives the same node.
Always(node, by) == [j \in 1..by |-> node]

\* addTrain(at), the picks of randomGrow being ans: [S, game, threw, ret,
\* fair], fair when ans are picks randomGrow can make.
addTrain(S, G, at, ans) ==
  LET out(T, threw, ret, fair) == [S |-> T, game |-> G, threw |-> threw, ret |-> ret, fair |-> fair]
  IN
  IF ~at.attached THEN out(S, TRUE, FALSE, TRUE)
  ELSE The({
    IF res.threw THEN out(res.S, TRUE, FALSE, TRUE)
    ELSE The({
      IF placed.threw THEN out(placed.S, TRUE, FALSE, TRUE)
      ELSE The({The({
             IF expanded.threw THEN out(expanded.S, TRUE, FALSE, PickedAmong(told))
             ELSE IF expanded.ret # TrainLength THEN out(expanded.S, FALSE, FALSE, PickedAmong(told))
             ELSE [out(expanded.S, FALSE, TRUE, PickedAmong(told)) EXCEPT
                     !.game.trainData = Append(@, [train |-> res.ret, dir |-> -1])]
        : told \in {growTold(placed.S, res.ret, 1, TrainLength, ans)}})
        : expanded \in {grow(placed.S, res.ret, 1, TrainLength, ans)}})
      : placed \in {
          IF at.node # NoId THEN SDone(res.S, NoId)
          ELSE IF lineFor(res.S, at.low, at.high).threw THEN SThrow(res.S)
          ELSE IF lineFor(res.S, at.low, at.high).ret = NoLine THEN SThrow(res.S)
          ELSE The({The({
                 IF moved.threw THEN SThrow(moved.S)
                 ELSE IF moved.ret # offset THEN SThrow(moved.S)
                 ELSE shrink(moved.S, res.ret, -1, offset)
            : moved \in {grow(res.S, res.ret, 1, offset, Always(at.high, offset))}})
            : offset \in {RoundHalves(lineFor(res.S, at.low, at.high).ret, at.offset)}})}})
    : res \in {addReserve(S, IF at.node # NoId THEN at.node ELSE at.low, NoId)}})

\* The body of the forEach in #trainLoop for one train, data = [train, dir]:
\* [S, threw, dir, fair].
trainStep(S, data, ans) ==
  The({The({
    IF growBy.threw THEN [S |-> growBy.S, threw |-> TRUE, dir |-> data.dir, fair |-> fair]
    ELSE IF query(growBy.S, data.train) # {}
      THEN The({[S |-> back.S, threw |-> back.threw, dir |-> -data.dir, fair |-> fair]
             : back \in {shrink(growBy.S, data.train, data.dir, MoveBy)}})
      ELSE The({[S |-> back.S, threw |-> back.threw,
                 dir |-> IF growBy.ret # MoveBy THEN -data.dir ELSE data.dir, fair |-> fair]
             : back \in {shrink(growBy.S, data.train, -data.dir, growBy.ret)}})
    : fair \in {PickedAmong(growTold(S, data.train, data.dir, MoveBy, ans))}})
    : growBy \in {grow(S, data.train, data.dir, MoveBy, ans)}})

\* The forEach over #trainData from its i-th entry on, in insertion order;
\* anss[i] are the picks of randomGrow for the i-th train.
RECURSIVE trainEach(_, _, _, _)
trainEach(S, trainData, i, anss) ==
  IF i > Len(trainData) THEN [S |-> S, trainData |-> trainData, threw |-> FALSE, fair |-> TRUE]
  ELSE The({
    IF one.threw \/ ~one.fair
      THEN [S |-> one.S, trainData |-> trainData, threw |-> one.threw, fair |-> one.fair]
      ELSE trainEach(one.S, [trainData EXCEPT ![i].dir = one.dir], i + 1, anss)
    : one \in {trainStep(S, trainData[i], anss[i])}})

\* #trainLoop(now): [S, game, threw, events, fair].
trainLoop(S, G, now, anss) ==
  LET H == [G EXCEPT !.lastTrainLoop = now]
      out(T, K, threw, events, fair) ==
        [S |-> T, game |-> K, threw |-> threw, events |-> events, fair |-> fair]
  IN
  IF G.lastTrainLoop = 0 THEN out(S, H, FALSE, <<>>, TRUE)
  ELSE IF H.loopIndex + 1 # StepEvery
    THEN out(S, [H EXCEPT !.loopIndex = @ + 1], FALSE, <<>>, TRUE)
  ELSE The({
    out(each.S, [H EXCEPT !.loopIndex = 0, !.trainData = each.trainData], each.threw,
        IF ~each.threw /\ Len(H.trainData) > 0 THEN <<"update-train">> ELSE <<>>, each.fair)
    : each \in {trainEach(S, H.trainData, 1, anss)}})

\* ------------------------------------------------------------ calls on a TrainGame
\* The game over the star of ForkSimple, built through its graph getter;
\* the trains are added by addTrain.
InitTrains ==
  /\ GraphIdle
  /\ sNode = ForkSimple.byNode
  /\ sReserve = ForkSimple.byReserve
  /\ globalId = ForkSimple.globalId
  /\ last = NoCall

SetGame(r) ==
  /\ sNode' = r.S.byNode
  /\ sReserve' = r.S.byReserve
  /\ globalId' = r.S.globalId
  /\ game' = r.game
  /\ UNCHANGED <<byNode, byEdge, arrays, heights, man>>

\* What addTrain is given: a node, or the middle of a line.
TrainPlaces ==
  {LineSearch(TRUE, n, NoId, NoId, NoOffset, 0, 0) : n \in DOMAIN sNode}
  \cup {LineSearch(TRUE, NoId, a, b, 1, 0, 0) : a \in {1}, b \in {2, 3}}
  \cup {LineSearch(FALSE, NoId, NoId, NoId, NoOffset, 0, 0)}

Picks(by) == [1..by -> DOMAIN sNode \cup {NoId}]

AddTrain ==
  /\ last.op = "none"
  /\ Cardinality(DOMAIN sReserve) < MaxSnakes
  /\ \E at \in TrainPlaces, ans \in Picks(TrainLength) :
       \E r \in {addTrain(Simple, game, at, ans)} :
         /\ r.fair
         /\ SetGame(r)
         /\ last' = Call("addTrain", r.threw, <<at>>, r.ret)

TrainLoop ==
  /\ last.op = "none"
  /\ \E now \in {0, 1}, anss \in [1..Len(game.trainData) -> Picks(MoveBy)] :
       \E r \in {trainLoop(Simple, game, now, anss)} :
         /\ r.fair
         /\ SetGame(r)
         /\ last' = Call("trainLoop", r.threw, <<now>>, r.events)

NextTrains == AddTrain \/ TrainLoop \/ Return

SpecTrains == InitTrains /\ [][NextTrains]_vars

\* C34: one step of the train loop leaves the length of every registered
\* train as it was, whether its growth was complete, partial, or followed
\* by a collision that query reports.
C34_StepKeepsLengths ==
  [][Called("trainLoop") =>
       \A i \in 1..Len(game.trainData) :
         sReserve'[game.trainData[i].train].length = sReserve[game.trainData[i].train].length]_vars

\* ------------------------------------------------------------ TrainGame: add
\* src/src/game.js 184-232 and 339-371.  Points lie on an integer grid.
RoundingFactor == 1   \* opts.roundingFactor

Point(x, y) == [x |-> x, y |-> y]

\* Math.floor(Math.hypot(dx, dy) * roundingFactor).
RECURSIVE FloorSqrtFrom(_, _)
FloorSqrtFrom(n, k) == IF (k + 1) * (k + 1) > n THEN k ELSE FloorSqrtFrom(n, k + 1)

roundedLength(a, b) ==
  FloorSqrtFrom(((a.x - b.x) * (a.x - b.x) + (a.y - b.y) * (a.y - b.y))
                  * RoundingFactor * RoundingFactor, 0)

\* The direction Math.atan2(a.y - b.y, a.x - b.x) stands for, as a vector:
\* atan2(0, 0) is 0, the direction of (1, 0).
angle(a, b) == IF a.x = b.x /\ a.y = b.y THEN Point(1, 0) ELSE Point(a.x - b.x, a.y - b.y)

\* smallestAngle(u, v) > Math.PI - maxAngle, maxAngle being Math.PI / 3:
\* the directions are more than 120 degrees apart, that is cos < -1/2.
\* (No two grid directions are exactly 120 degrees apart.)
Opposed(u, v) ==
  LET dot == u.x * v.x + u.y * v.y
  IN dot < 0 /\ 4 * dot * dot > (u.x * u.x + u.y * u.y) * (v.x * v.x + v.y * v.y)

\* dirsFor(fromPoint, find), from its i-th candidate on: [threw, ret], ret
\* the nodes to join with.
RECURSIVE dirsFrom(_, _, _, _, _)
dirsFrom(G, fromPoint, find, possibleNodes, i) ==
  IF i > Len(possibleNodes) THEN [threw |-> FALSE, ret |-> <<>>]
  ELSE IF possibleNodes[i] \notin DOMAIN G.nodePos THEN [threw |-> TRUE, ret |-> <<>>]
  ELSE The({
    IF rest.threw THEN rest
    ELSE IF Opposed(angle(fromPoint, find), angle(G.nodePos[possibleNodes[i]], find))
      THEN [rest EXCEPT !.ret = <<possibleNodes[i]>> \o @]
      ELSE rest
    : rest \in {dirsFrom(G, fromPoint, find, possibleNodes, i + 1)}})

dirsFor(S, G, fromPoint, find) ==
  IF ~find.attached THEN [threw |-> FALSE, ret |-> <<>>]
  ELSE IF find.node # NoId
    THEN IF find.node \notin DOMAIN S.byNode THEN [threw |-> TRUE, ret |-> <<>>]
         ELSE dirsFrom(G, fromPoint, find,
                       [j \in 1..Len(S.byNode[find.node].conn) |-> S.byNode[find.node].conn[j].node], 1)
    ELSE dirsFrom(G, fromPoint, find, <<find.low, find.high>>, 1)

\* maybeSplit(part) of add: [S, game, threw, ret].
maybeSplit(S, G, part) ==
  LET out(T, K, threw, ret) == [S |-> T, game |-> K, threw |-> threw, ret |-> ret]
      created(r) ==
        IF r.threw THEN out(r.S, G, TRUE, NoId)
        ELSE out(r.S, [G EXCEPT !.nodePos = Put(@, r.ret, Point(part.x, part.y))], FALSE, r.ret)
  IN
  IF part.node # NoId THEN out(S, G, FALSE, part.node)
  ELSE IF part.offset = NoOffset THEN The({created(r) : r \in {addNode(S, NoId)}})
  ELSE The({
    IF line.threw \/ line.ret = NoLine THEN out(S, G, TRUE, NoId)
    ELSE The({created(r)
           : r \in {split(S, part.low, NoId, part.high, RoundHalves(line.ret, part.offset))}})
    : line \in {lineFor(S, part.low, part.high)}})

\* dirs.forEach(join(otherNode, node, farNode)) from the i-th of dirs on.
RECURSIVE joinEach(_, _, _, _, _)
joinEach(S, otherNode, node, dirs, i) ==
  IF i > Len(dirs) THEN SDone(S, NoId)
  ELSE The({
    IF done.threw THEN SThrow(done.S) ELSE joinEach(done.S, otherNode, node, dirs, i + 1)
    : done \in {simpleJoin(S, otherNode, node, dirs[i])}})

\* One round of arg.forEach in add.
joinInto(S, G, otherNode, otherPoint, node, find) ==
  The({
    IF dirs.threw THEN SThrow(S) ELSE joinEach(S, otherNode, node, dirs.ret, 1)
    : dirs \in {dirsFor(S, G, otherPoint, find)}})

\* add(low, high): [S, game, threw, events].
gameAdd(S, G, low, high) ==
  LET out(T, K, threw, events) == [S |-> T, game |-> K, threw |-> threw, events |-> events]
  IN
  The({
    IF l.threw THEN out(l.S, l.game, TRUE, <<>>)
    ELSE The({
      IF h.threw THEN out(h.S, h.game, TRUE, <<>>)
      ELSE The({
        IF c.threw THEN out(c.S, h.game, TRUE, <<>>)
        ELSE The({
          IF first.threw THEN out(first.S, h.game, TRUE, <<>>)
          ELSE The({
            IF second.threw THEN out(second.S, h.game, TRUE, <<>>)
            ELSE out(second.S, h.game, FALSE, <<"update">>)
            : second \in {joinInto(first.S, h.game, l.ret, low, h.ret, high)}})
          : first \in {joinInto(c.S, h.game, h.ret, high, l.ret, low)}})
        : c \in {connect(h.S, l.ret, h.ret, roundedLength(low, high))}})
      : h \in {maybeSplit(l.S, l.game, high)}})
    : l \in {maybeSplit(S, G, low)}})

\* ------------------------------------------------------------ calls of add
\* The game starts empty; lines are drawn by add between grid points.
MaxPoints == 3       \* add is called while the graph has fewer nodes
GridMax == 2         \* free points have coordinates 0..GridMax

InitAdd ==
  /\ GraphIdle
  /\ sNode = EmptyMap /\ sReserve = EmptyMap
  /\ globalId = 0
  /\ last = NoCall

\* What add is given for an end: a node of the graph (or one that is gone)
\* at its place, the middle of two nodes (a line or, stale, none), or a free
\* point.
SearchAtNode(n) ==
  IF n \in DOMAIN game.nodePos
    THEN LineSearch(TRUE, n, NoId, NoId, NoOffset, game.nodePos[n].x, game.nodePos[n].y)
    ELSE LineSearch(TRUE, n, NoId, NoId, NoOffset, 0, 0)

SearchOnLine(a, b) ==
  LineSearch(TRUE, NoId, a, b, 1,
             (game.nodePos[a].x + game.nodePos[b].x) \div 2,
             (game.nodePos[a].y + game.nodePos[b].y) \div 2)

AddPlaces ==
  {SearchAtNode(n) : n \in DOMAIN sNode \cup {Stranger}}
  \cup {SearchOnLine(ab[1], ab[2]) : ab \in {cd \in (DOMAIN game.nodePos) \X (DOMAIN game.nodePos) : cd[1] # cd[2]}}
  \cup {LineSearch(FALSE, NoId, NoId, NoId, NoOffset, x, y) : x \in 0..GridMax, y \in 0..GridMax}

GameAdd ==
  /\ last.op = "none"
  /\ Cardinality(DOMAIN sNode) < MaxPoints
  /\ \E low \in AddPlaces, high \in AddPlaces :
       \E r \in {gameAdd(Simple, game, low, high)} :
         /\ SetGame(r)
         /\ last' = Call("add", r.threw, <<>>, r.events)

NextAdd == GameAdd \/ Return

SpecAdd == InitAdd /\ [][NextAdd]_vars

\* C35: a call of add that throws leaves the graph and the positions of
\* the nodes as they were and dispatches nothing; a call that returns
\* dispatches 'update' once.
C35_AddAllOrNothing ==
  [][Called("add") =>
       IF last'.threw
         THEN sNode' = sNode /\ game'.nodePos = game.nodePos /\ last'.ret.add = <<>>
         ELSE last'.ret.add = <<"update">>]_vars

\* ------------------------------------------------------------ Graph in unit space
\* src/unnamed/part_010: the Graph the SnakeMan of part_006 walks on.  A place
\* on an edge is a number in [0, 1], here counted in Unit-ths: at = Unit is
\* 1.0.  (Unit is a power of two and lengths are whole, so the floating
\* point sums and products below are exact.)
Unit == 4

\* A Virt object, the stretch of its edge after the index-th node.
Virt(edge, index) == [edge |-> edge, index |-> index]

\* The graph after e = add(8); m = splitEdge(e.edge, 0.5).node; f = add(8);
\* n = mergeNode(m, f.lowNode); join(e.lowNode, n, f.highNode):
\* edge 1 runs 2 - 6 - 3, edge 5 runs 6 - 7, and from 2 one goes on at 6
\* to 3 or to 7.
UnitGraph ==
  [byEdge |-> (1 :> [length |-> 8, virt |-> <<0, 2>>, node |-> <<2, 6, 3>>])
              @@ (5 :> [length |-> 8, virt |-> <<0>>, node |-> <<6, 7>>]),
   byNode |-> (2 :> [holder |-> <<1>>, pairs |-> <<>>])
              @@ (3 :> [holder |-> <<1>>, pairs |-> <<>>])
              @@ (6 :> [holder |-> <<5, 1>>,
                        pairs |-> << <<Virt(1, 1), Virt(1, 2)>>, <<Virt(1, 1), Virt(5, 1)>> >>])
              @@ (7 :> [holder |-> <<5>>, pairs |-> <<>>]),
   globalId |-> 7]

\* edgeDetails(edge).
unitEdgeDetails(G, edge) ==
  [lowNode |-> G.byEdge[edge].node[1],
   highNode |-> G.byEdge[edge].node[Len(G.byEdge[edge].node)],
   length |-> G.byEdge[edge].length,
   edge |-> edge]

\* edgeData.virt[index]?.at ?? 1.0, index from 1.
VirtAt(data, index) == IF index \in 1..Len(data.virt) THEN data.virt[index] ELSE Unit

\* edgeData.node[index]?.id ?? ''.
NodeIdAt(data, index) == IF index \in 1..Len(data.node) THEN data.node[index] ELSE NoId

\* nodeOnEdge(edge, node): [threw, edge, at, node, priorNode, afterNode].
unitNodeOnEdge(G, edge, node) ==
  LET data == G.byEdge[edge]
      index == IndexOf(data.node, node)
  IN [threw |-> index = 0, edge |-> edge, at |-> VirtAt(data, index), node |-> node,
      priorNode |-> NodeIdAt(data, index - 1), afterNode |-> NodeIdAt(data, index + 1)]

\* findNode(edge, at, dir): the nearest node, with dir the nearest strictly
\* on that side; all[0] of an empty list throws.
unitFindNode(G, edge, at, dir) ==
  LET data == G.byEdge[edge]
      all == {i \in 1..Len(data.node) : dir = 0 \/ Sign(VirtAt(data, i) - at) = dir}
      rel(i) == Abs(VirtAt(data, i) - at)
      first == CHOOSE i \in all : \A j \in all : rel(i) < rel(j) \/ (rel(i) = rel(j) /\ i <= j)
  IN IF all = {} THEN [threw |-> TRUE, edge |-> edge, at |-> 0, node |-> NoId,
                       priorNode |-> NoId, afterNode |-> NoId]
     ELSE unitNodeOnEdge(G, edge, data.node[first])

\* nodeVia(virt) of pairsAtNode: the node at the other end of the stretch.
unitNodeVia(G, nodeId, virt) ==
  LET dataEdge == G.byEdge[virt.edge]
      indexOfPrimary == IndexOf(dataEdge.node, nodeId)
  IN IF indexOfPrimary = 0 THEN NoId
     ELSE IF virt.index = indexOfPrimary THEN NodeIdAt(dataEdge, indexOfPrimary + 1)
     ELSE IF virt.index = indexOfPrimary - 1 THEN NodeIdAt(dataEdge, indexOfPrimary - 1)
     ELSE NoId

\* pairsAtNode(nodeId): [threw, ret].
unitPairsAtNode(G, nodeId) ==
  IF nodeId \notin DOMAIN G.byNode THEN [threw |-> TRUE, ret |-> <<>>]
  ELSE LET pairs == G.byNode[nodeId].pairs
           ret == [k \in 1..Len(pairs) |->
                     <<unitNodeVia(G, nodeId, pairs[k][1]), unitNodeVia(G, nodeId, pairs[k][2])>>]
       IN [threw |-> \E k \in 1..Len(pairs) : ret[k][1] = NoId \/ ret[k][2] = NoId, ret |-> ret]

\* #virtBetween(a, b) over the shared edges from the i-th of a's holder on:
\* [threw, virt, index, dir].
RECURSIVE virtBetweenFrom(_, _, _, _)
virtBetweenFrom(G, a, b, i) ==
  LET holder == G.byNode[a].holder
      none == [threw |-> TRUE, virt |-> Virt(NoId, 0), index |-> 0, dir |-> 1]
  IN
  IF i > Len(holder) THEN none
  ELSE IF ~Has(G.byNode[b].holder, holder[i]) THEN virtBetweenFrom(G, a, b, i + 1)
  ELSE
  LET dataEdge == G.byEdge[holder[i]]
      indexOfA == IndexOf(dataEdge.node, a)
  IN IF indexOfA = 0 THEN none
     ELSE IF NodeIdAt(dataEdge, indexOfA - 1) = b
       THEN [threw |-> FALSE, virt |-> Virt(holder[i], indexOfA - 1), index |-> indexOfA - 1, dir |-> -1]
     ELSE IF NodeIdAt(dataEdge, indexOfA + 1) = b
       THEN [threw |-> FALSE, virt |-> Virt(holder[i], indexOfA), index |-> indexOfA, dir |-> 1]
     ELSE virtBetweenFrom(G, a, b, i + 1)

virtBetween(G, a, b) ==
  IF a \notin DOMAIN G.byNode \/ b \notin DOMAIN G.byNode
    THEN [threw |-> TRUE, virt |-> Virt(NoId, 0), index |-> 0, dir |-> 1]
    ELSE virtBetweenFrom(G, a, b, 1)

\* findSegment(lowNode, highNode): [threw, edge, at, dir]; at is the place
\* of the virt found, which is the lower end of the stretch.  Going down,
\* the length is taken from virt[index - 1], which the first stretch of an
\* edge has not: reading its at throws.
unitFindSegment(G, lowNode, highNode) ==
  The({
    IF v.threw \/ (v.dir = -1 /\ v.index = 1)
      THEN [threw |-> TRUE, edge |-> NoId, at |-> 0, dir |-> 1]
    ELSE [threw |-> FALSE, edge |-> v.virt.edge,
          at |-> G.byEdge[v.virt.edge].virt[v.index], dir |-> v.dir]
    : v \in {virtBetween(G, a, b) : a \in {lowNode}, b \in {highNode}}})

\* ------------------------------------------------------------ SnakeMan
\* src/unnamed/part_006.  A SnakePart is an object that the snake, the list
\* of its edge and the sets of its nodes all hold: man.part is the heap of
\* these objects, the lists and sets hold their keys.
\*   man.part         : key -> [snake, edge, dir, low, lowNode, high, highNode]
\*   man.reservedEdge : edge -> parts in the order of their places
\*   man.reservedNode : node -> set of parts
\*   man.bySnake      : snake -> [length, parts]
MDone(M, ret) == [M |-> M, threw |-> FALSE, ret |-> ret]

MThrow(M) == [M |-> M, threw |-> TRUE, ret |-> NoId]

SnakePart(snake, edge, dir, low, lowNode, high, highNode) ==
  [snake |-> snake, edge |-> edge, dir |-> dir, low |-> low, lowNode |-> lowNode,
   high |-> high, highNode |-> highNode]

\* The key of the next object made.
NewPart(M) == CHOOSE p \in 1..(Cardinality(DOMAIN M.part) + 1) : p \notin DOMAIN M.part

\* A length of the edge as a share of it, and back.
ToUnit(real, length) == (real * Unit) \div length

ToReal(unit, length) == (unit * length) \div Unit

\* #reserveNode(part, node): ret is whether another part had the node.
reserveNode(M, p, node) ==
  IF node = NoId \/ ~(M.part[p].highNode = node \/ M.part[p].lowNode = node) THEN MThrow(M)
  ELSE IF node \notin DOMAIN M.reservedNode
    THEN MDone([M EXCEPT !.reservedNode = Put(@, node, {p})], FALSE)
  ELSE IF M.reservedNode[node] = {p} THEN MDone(M, FALSE)
  ELSE MDone([M EXCEPT !.reservedNode[node] = @ \cup {p}], TRUE)

\* #unreserveNode(part, node).
unreserveNode(M, p, node) ==
  IF node = NoId THEN MDone(M, NoId)
  ELSE IF node # M.part[p].highNode /\ node # M.part[p].lowNode THEN MThrow(M)
  ELSE
  LET N == IF node = M.part[p].highNode THEN [M EXCEPT !.part[p].highNode = NoId]
           ELSE [M EXCEPT !.part[p].lowNode = NoId]
  IN IF node \notin DOMAIN N.reservedNode THEN MThrow(N)
     ELSE IF p \notin N.reservedNode[node] THEN MThrow(N)
     ELSE IF N.reservedNode[node] = {p} THEN MDone([N EXCEPT !.reservedNode = Del(@, node)], NoId)
     ELSE MDone([N EXCEPT !.reservedNode[node] = @ \ {p}], NoId)

\* #unreserve(part).
unreserve(M, p) ==
  LET edge == M.part[p].edge
  IN IF edge \notin DOMAIN M.reservedEdge THEN MThrow(M)
     ELSE IF IndexOf(M.reservedEdge[edge], p) = 0 THEN MThrow(M)
     ELSE IF Len(M.reservedEdge[edge]) = 1 THEN MDone([M EXCEPT !.reservedEdge = Del(@, edge)], NoId)
     ELSE MDone([M EXCEPT !.reservedEdge[edge] = RemoveAt(@, IndexOf(@, p))], NoId)

\* The first loop of #query from index i (from 0) on: -1, or the index it
\* stops at.
RECURSIVE queryLow(_, _, _, _)
queryLow(M, reserved, low, i) ==
  IF i >= Len(reserved) THEN i
  ELSE IF low > M.part[reserved[i + 1]].low /\ low < M.part[reserved[i + 1]].high THEN -1
  ELSE IF low <= M.part[reserved[i + 1]].low THEN i
  ELSE queryLow(M, reserved, low, i + 1)

\* #query(edge, low, high): where a part [low, high] goes in the list of
\* the edge, -1 when an end of it lies inside a part that is there.
manQuery(M, edge, low, high) ==
  IF edge \notin DOMAIN M.reservedEdge THEN 0
  ELSE LET reserved == M.reservedEdge[edge]
           i == queryLow(M, reserved, low, 0)
       IN IF i = -1 THEN -1
          ELSE IF \E j \in (i + 1)..Len(reserved) :
                    high > M.part[reserved[j]].low /\ high < M.part[reserved[j]].high
            THEN -1
          ELSE i

\* #adjacentReservation(part, dir): [threw, other, dist].
adjacentReservation(M, p, dir) ==
  LET part == M.part[p]
      all == IF part.edge \in DOMAIN M.reservedEdge THEN M.reservedEdge[part.edge] ELSE <<>>
      index == IndexOf(all, p)
  IN IF index = 0 THEN [threw |-> TRUE, other |-> NoId, dist |-> 0]
     ELSE IF dir = -1
       THEN IF index = 1 THEN [threw |-> FALSE, other |-> NoId, dist |-> part.low]
            ELSE [threw |-> FALSE, other |-> all[index - 1],
                  dist |-> part.low - M.part[all[index - 1]].high]
     ELSE IF index = Len(all) THEN [threw |-> FALSE, other |-> NoId, dist |-> Unit - part.high]
     ELSE [threw |-> FALSE, other |-> all[index + 1],
           dist |-> M.part[all[index + 1]].low - part.high]

\* #reserve(part): ret is whether the part was put in the list of its edge.
reserve(M, p) ==
  LET part == M.part[p]
  IN IF part.edge \notin DOMAIN M.reservedEdge
       THEN MDone([M EXCEPT !.reservedEdge = Put(@, part.edge, <<p>>)], TRUE)
     ELSE IF manQuery(M, part.edge, part.low, part.high) = -1 THEN MDone(M, FALSE)
     ELSE MDone([M EXCEPT !.reservedEdge[part.edge] =
                            InsertAt(@, manQuery(M, part.edge, part.low, part.high), p)],
                TRUE)

\* Objects nothing holds any more are gone.
Held(M) ==
  UNION {SeqToSet(M.bySnake[s].parts) : s \in DOMAIN M.bySnake}
  \cup UNION {SeqToSet(M.reservedEdge[e]) : e \in DOMAIN M.reservedEdge}
  \cup UNION {M.reservedNode[n] : n \in DOMAIN M.reservedNode}

Collect(M) == [M EXCEPT !.part = [p \in DOMAIN M.part \cap Held(M) |-> M.part[p]]]

\* addSnake(edge, at, dir), the id counter being at gid: [M, threw, ret,
\* globalId].
addSnake(M, gid, edge, at, dir) ==
  IF at < 0 \/ at > Unit THEN [M |-> M, threw |-> TRUE, ret |-> NoId, globalId |-> gid]
  ELSE
  LET id == gid + 1
      p == NewPart(M)
      N == [M EXCEPT !.part = Put(@, p, SnakePart(id, edge, dir, at, NoId, at, NoId))]
  IN The({
       IF ~r.ret THEN [M |-> M, threw |-> FALSE, ret |-> NoId, globalId |-> id]
       ELSE [M |-> [r.M EXCEPT !.bySnake = Put(@, id, [length |-> 0, parts |-> <<p>>])],
             threw |-> FALSE, ret |-> id, globalId |-> id]
       : r \in {reserve(N, p)}})

\* data.parts.forEach(#unreserve) of removeSnake from the i-th part on.
RECURSIVE unreserveEach(_, _, _)
unreserveEach(M, parts, i) ==
  IF i > Len(parts) THEN MDone(M, NoId)
  ELSE The({IF r.threw THEN r ELSE unreserveEach(r.M, parts, i + 1)
            : r \in {unreserve(M, parts[i])}})

\* removeSnake(snake).
removeSnake(M, snake) ==
  IF snake \notin DOMAIN M.bySnake THEN MThrow(M)
  ELSE The({
    IF r.threw THEN r ELSE MDone([r.M EXCEPT !.bySnake = Del(@, snake)], NoId)
    : r \in {unreserveEach(M, M.bySnake[snake].parts, 1)}})

\* The while loop of #reduceSnake, dec being what is left to take off.
RECURSIVE reduceLoop(_, _, _, _, _)
reduceLoop(M, G, snake, end, dec) ==
  IF ~(M.bySnake[snake].length > 0 /\ dec > 0) THEN MDone(M, NoId)
  ELSE
  LET parts == M.bySnake[snake].parts
      index == IF end = 1 THEN Len(parts) ELSE 1
      p == parts[index]
      part == M.part[p]
      length == unitEdgeDetails(G, part.edge).length
      effectiveDir == end * part.dir
      partUse == ToReal(part.high - part.low, length)
  IN
  IF partUse >= dec
    THEN IF effectiveDir = 1
           THEN unreserveNode([M EXCEPT !.part[p].high = @ - ToUnit(dec, length)], p, part.highNode)
           ELSE unreserveNode([M EXCEPT !.part[p].low = @ + ToUnit(dec, length)], p, part.lowNode)
  ELSE IF Len(parts) = 1 THEN MThrow(M)
  ELSE The({
    IF gone.threw THEN gone
    ELSE The({
      IF lowGone.threw THEN lowGone
      ELSE The({
        IF highGone.threw THEN highGone
        ELSE reduceLoop([highGone.M EXCEPT !.bySnake[snake].parts = RemoveAt(@, index)],
                        G, snake, end, dec - partUse)
        : highGone \in {unreserveNode(lowGone.M, p, lowGone.M.part[p].highNode)}})
      : lowGone \in {unreserveNode(gone.M, p, gone.M.part[p].lowNode)}})
    : gone \in {unreserve(M, p)}})

\* #reduceSnake(snake, end, by).
reduceSnake(M, G, snake, end, by) ==
  LET amount == IF by < 0 THEN 0 ELSE by
  IN The({
       IF r.threw THEN r ELSE MDone([r.M EXCEPT !.bySnake[snake].length = @ - amount], NoId)
       : r \in {reduceLoop(M, G, snake, end, Min(amount, M.bySnake[snake].length))}})

\* Math.random() is one of 0, 1/RandomSteps, ...; rnd lists the numerators
\* of the values a call draws, in order (0 when the list is used up).
RandomSteps == 2

choiceIndex(rnd, n) == IF rnd = <<>> THEN 0 ELSE (Head(rnd) * n) \div RandomSteps

\* The choices of #increaseSnake at a node: the far ends of the pairs that
\* have fromNode at one end.
RECURSIVE choicesFrom(_, _, _)
choicesFrom(pairs, fromNode, i) ==
  IF i > Len(pairs) THEN <<>>
  ELSE IF pairs[i][1] = fromNode THEN <<pairs[i][2]>> \o choicesFrom(pairs, fromNode, i + 1)
  ELSE IF pairs[i][2] = fromNode THEN <<pairs[i][1]>> \o choicesFrom(pairs, fromNode, i + 1)
  ELSE choicesFrom(pairs, fromNode, i + 1)

\* The while loop of #increaseSnake, inc being what is left to grow.
RECURSIVE increaseLoop(_, _, _, _, _, _, _)
increaseLoop(M, G, snake, end, by, inc, rnd) ==
  LET grown(N, amount, ret) == MDone([N EXCEPT !.bySnake[snake].length = @ + amount], ret)
  IN
  IF inc <= 0 THEN grown(M, by, by)
  ELSE
  LET parts == M.bySnake[snake].parts
      p == IF end = 1 THEN parts[Len(parts)] ELSE parts[1]
      part == M.part[p]
      effectiveDir == end * part.dir
      findFrom == IF effectiveDir = 1 THEN part.high ELSE part.low
      length == unitEdgeDetails(G, part.edge).length
      unitInc == ToUnit(inc, length)
  IN The({
    IF nodeInDir.threw THEN MThrow(M)
    ELSE
    LET unitDeltaToNode == Abs(findFrom - nodeInDir.at)
        deltaToNode == ToReal(unitDeltaToNode, length)
    IN The({
      IF adjacent.threw THEN MThrow(M)
      ELSE IF adjacent.dist < Min(unitDeltaToNode, unitInc)
        THEN LET left == inc - ToReal(adjacent.dist, length)
                 N == IF effectiveDir = 1 THEN [M EXCEPT !.part[p].high = @ + adjacent.dist]
                      ELSE [M EXCEPT !.part[p].low = @ - adjacent.dist]
             IN grown(N, by - left, left)
      ELSE IF inc <= deltaToNode
        THEN grown(IF effectiveDir = 1 THEN [M EXCEPT !.part[p].high = @ + unitInc]
                   ELSE [M EXCEPT !.part[p].low = @ - unitInc], by, by)
      ELSE
      LET atNode == IF effectiveDir = 1
                      THEN [M EXCEPT !.part[p].high = nodeInDir.at, !.part[p].highNode = nodeInDir.node]
                      ELSE [M EXCEPT !.part[p].low = nodeInDir.at, !.part[p].lowNode = nodeInDir.node]
          fromNode == IF effectiveDir = 1 THEN nodeInDir.priorNode ELSE nodeInDir.afterNode
          left == inc - deltaToNode
      IN The({
        IF was.threw THEN MThrow(was.M)
        ELSE IF was.ret THEN grown(was.M, by - left, left)
        ELSE The({
          IF pairs.threw THEN MThrow(was.M)
          ELSE
          LET choices == choicesFrom(pairs.ret, fromNode, 1)
              to == IF Len(choices) > 1 THEN choices[choiceIndex(rnd, Len(choices)) + 1]
                    ELSE IF Len(choices) = 1 THEN choices[1] ELSE NoId
              after == IF Len(choices) > 1 /\ rnd # <<>> THEN Tail(rnd) ELSE rnd
          IN IF choices = <<>> THEN grown(was.M, by - left, by - left)
             ELSE The({
               IF seg.threw THEN MThrow(was.M)
               ELSE
               LET a == NewPart(was.M)
                   added == IF seg.dir = 1
                              THEN SnakePart(snake, seg.edge, seg.dir * end, seg.at, nodeInDir.node, seg.at, NoId)
                              ELSE SnakePart(snake, seg.edge, seg.dir * end, seg.at, NoId, seg.at, nodeInDir.node)
                   made == [was.M EXCEPT !.part = Put(@, a, added)]
               IN The({
                 IF held.threw THEN MThrow(held.M)
                 ELSE The({
                   increaseLoop([put.M EXCEPT !.bySnake[snake].parts =
                                   IF end = 1 THEN Append(@, a) ELSE <<a>> \o @],
                                G, snake, end, by, left, after)
                   : put \in {reserve(held.M, a)}})
                 : held \in {reserveNode(made, a, nodeInDir.node)}})
               : seg \in {unitFindSegment(G, nodeInDir.node, to)}})
          : pairs \in {unitPairsAtNode(G, nodeInDir.node)}})
        : was \in {reserveNode(atNode, p, nodeInDir.node)}})
      : adjacent \in {adjacentReservation(M, p, effectiveDir)}})
    : nodeInDir \in {unitFindNode(G, part.edge, findFrom, effectiveDir)}})

\* #increaseSnake(snake, end, by).
increaseSnake(M, G, snake, end, by, rnd) ==
  increaseLoop(M, G, snake, end, IF by < 0 THEN 0 ELSE by, IF by < 0 THEN 0 ELSE by, rnd)

\* expand(snake, end, by).
expand(M, G, snake, end, by, rnd) ==
  IF snake \notin DOMAIN M.bySnake THEN MThrow(M)
  ELSE IF by = 0 THEN MDone(M, 0)
  ELSE IF by > 0 THEN increaseSnake(M, G, snake, end, by, rnd)
  ELSE The({IF r.threw THEN r ELSE MDone(r.M, -by)
            : r \in {reduceSnake(M, G, snake, end, -by)}})

\* move(snake, end, by): ret is what the first expand returned.
move(M, G, snake, end, by, rnd) ==
  IF snake \notin DOMAIN M.bySnake THEN MThrow(M)
  ELSE The({
    IF expandBy.threw THEN expandBy
    ELSE The({
      IF back.threw THEN back ELSE MDone(back.M, expandBy.ret)
      : back \in {expand(expandBy.M, G, snake, -end,
                         M.bySnake[snake].length - expandBy.M.bySnake[snake].length,
                         IF by > 0 THEN <<>> ELSE rnd)}})
    : expandBy \in {expand(M, G, snake, end, by, rnd)}})

\* ------------------------------------------------------------ calls on a SnakeMan
\* The SnakeMan over UnitGraph.  Amounts are even: with edges of length 8
\* they are whole numbers of Unit-ths.  One snake is there from the start,
\* put on an edge and grown once; a second one is added and driven about.
MaxSnakeIds == 2     \* addSnake is called at most this many times
MaxSnakeLength == 8  \* expand is not asked to grow a snake beyond this length
MaxShort == 2        \* nor to take off more than its length and this

ManSteps == {-2, 2, 6}

\* Where addSnake puts a snake: on a stretch, or off the edge.
SnakeStarts == {1, 3, Unit + 1}

\* The snake that is there from the start.
FirstSnake == UnitGraph.globalId + 1

\* What the parts of a snake cover, as a length.
RECURSIVE ExtentFrom(_, _, _)
ExtentFrom(M, parts, i) ==
  IF i > Len(parts) THEN 0
  ELSE ToReal(M.part[parts[i]].high - M.part[parts[i]].low,
              unitEdgeDetails(UnitGraph, M.part[parts[i]].edge).length)
       + ExtentFrom(M, parts, i + 1)

Extent(M, snake) == ExtentFrom(M, M.bySnake[snake].parts, 1)

\* What the first expand of move adds to the snake (0 when it throws).
GrownBy(M, snake, end, by, rnd) ==
  The({IF e.threw THEN 0 ELSE Extent(e.M, snake) - Extent(M, snake)
       : e \in {expand(M, UnitGraph, snake, end, by, rnd)}})

InitMan ==
  /\ byNode = EmptyMap /\ byEdge = EmptyMap
  /\ sNode = EmptyMap /\ sReserve = EmptyMap
  /\ arrays = <<>> /\ heights = <<>> /\ game = NoGame
  /\ \E edge \in DOMAIN UnitGraph.byEdge, at \in {1, 3}, by \in {0, 4}, rnd \in 0..(RandomSteps - 1) :
       \E a \in {addSnake(NoMan, UnitGraph.globalId, edge, at, 1)} :
         \E e \in {expand(a.M, UnitGraph, a.ret, 1, by, <<rnd>>)} :
           /\ ~e.threw
           /\ man = Collect(e.M)
           /\ globalId = a.globalId
  /\ last = NoCall

SetMan(r, gid) ==
  /\ man' = Collect(r.M)
  /\ globalId' = gid
  /\ UNCHANGED <<byNode, byEdge, sNode, sReserve, arrays, heights, game>>

AddSnake ==
  /\ last.op = "none"
  /\ globalId < UnitGraph.globalId + MaxSnakeIds
  /\ \E edge \in DOMAIN UnitGraph.byEdge, at \in SnakeStarts, dir \in {-1, 1} :
       \E r \in {addSnake(man, globalId, edge, at, dir)} :
         /\ SetMan(r, r.globalId)
         /\ last' = Call("addSnake", r.threw, <<>>, r.ret)

RemoveSnake ==
  /\ last.op = "none"
  /\ \E snake \in DOMAIN man.bySnake \cup {Stranger} :
       \E r \in {removeSnake(man, snake)} :
         /\ SetMan(r, globalId)
         /\ last' = Call("removeSnake", r.threw, <<snake>>, NoId)

Expand ==
  /\ last.op = "none"
  /\ \E snake \in DOMAIN man.bySnake \ {FirstSnake}, end \in {-1, 1}, by \in ManSteps,
        rnd \in 0..(RandomSteps - 1) :
       /\ man.bySnake[snake].length + by >= -MaxShort
       /\ man.bySnake[snake].length + by <= MaxSnakeLength
       /\ \E r \in {expand(man, UnitGraph, snake, end, by, <<rnd>>)} :
            /\ SetMan(r, globalId)
            /\ last' = Call("expand", r.threw, <<snake, by>>, r.ret)

Move ==
  /\ last.op = "none"
  /\ \E snake \in DOMAIN man.bySnake \ {FirstSnake}, end \in {-1, 1}, by \in ManSteps,
        rnd \in 0..(RandomSteps - 1) :
       /\ man.bySnake[snake].length + by >= -MaxShort
       /\ man.bySnake[snake].length + by <= MaxSnakeLength
       /\ \E r \in {move(man, UnitGraph, snake, end, by, <<rnd>>)} :
            /\ SetMan(r, globalId)
            /\ last' = Call("move", r.threw, <<snake, by>>,
                            [ret |-> r.ret, grown |-> GrownBy(man, snake, end, by, <<rnd>>)])

NextMan == AddSnake \/ RemoveSnake \/ Expand \/ Move \/ Return

SpecMan == InitMan /\ [][NextMan]_vars

\* C32: when another snake's part on the edge, or a node that another
\* snake holds, cuts the growth short, expand and move return the distance
\* the snake did grow.
C32_ReturnsDistanceGrown ==
  [][/\ (Called("expand") /\ ~last'.threw /\ last'.args[2] > 0
           => last'.ret.expand = Extent(man', last'.args[1]) - Extent(man, last'.args[1]))
     /\ (Called("move") /\ ~last'.threw /\ last'.args[2] > 0
           => last'.ret.move.ret = last'.ret.move.grown)]_vars

\* The parts that the lists of the edges and the sets of the nodes hold.
OnEdges(M) == UNION {SeqToSet(M.reservedEdge[e]) : e \in DOMAIN M.reservedEdge}

OnNodes(M) == UNION {M.reservedNode[n] : n \in DOMAIN M.reservedNode}

\* C33: after removeSnake(s) no list of an edge and no set of a node holds
\* a part of s.
C33_RemoveReleasesAll ==
  [][Called("removeSnake") /\ ~last'.threw
       => \A p \in OnEdges(man') \cup OnNodes(man') : man'.part[p].snake # last'.args[1]]_vars
====
